---- MODULE Spec2Model ----
(***************************************************************************)
(* Permission resolution, membership registry and invitation lifecycle of  *)
(* the expense-tracking backend (backend/app).  The relational tables are  *)
(* functions from the row's unique key to the row; every request handler   *)
(* is one action, and the race specifications split a handler into its     *)
(* read phase and its commit.                                              *)
(***************************************************************************)
EXTENDS Integers, FiniteSets, Sequences, TLC

VARIABLES
    schema,       \* which DDL built the tables: "alembic" (004 migration) or "metadata" (create_all)
    users,        \* users table: the registered user ids
    orgs,         \* organizations table: org id -> [deleted_at]
    members,      \* organization_members table: <<org, user>> -> [role, copies]; copies is the
                  \* number of rows with that (organization_id, user_id)
    invitations,  \* organization_invitations table: token -> row
    accounts,     \* accounts table: account id -> row
    perms,        \* account_permissions table: <<account, user>> -> [permission, copies]; copies
                  \* is the number of rows stored for the pair, permission the level of the
                  \* row stored first
    txns,         \* transactions table: txn id -> row
    now,          \* the clock, in units of the invitation validity period
    resp,         \* the last completed request and its outcome
    reqs,         \* requests in flight (race specifications): request id -> session state
    issued,       \* invitation tokens generated so far (secrets.token_urlsafe never repeats one)
    audit_logs    \* audit_logs table: the set of rows, or NotObserved (see log_audit)

vars == <<schema, users, orgs, members, invitations, accounts, perms, txns, now, resp, reqs, issued,
         audit_logs>>

(***************************************************************************)
(* Bounds and identifier universes                                         *)
(***************************************************************************)
MaxTime == 2

Users == {"u1", "u2", "u3"}
\* users who sign up in Spec
Registrants == {"u1", "u2"}
Orgs == {"o1", "o2", "o3"}
\* ids handed out by register / create_organization in Spec
FreshOrgs == {"o1", "o2"}
Blobs == {"b1", "b2"}
\* wrapped keys are opaque strings to the server: those sent when a membership or
\* an invitation is first written, and those sent by an accepting invitee
Keys == {"k1", "k2", "k3"}
EnrolKeys == {"k1"}
AcceptKeys == {"k2"}
Tokens == {"t1", "t2"}
FreshTokens == {"t1"}
Accounts == {"a1"}
Txns == {"x1"}
ReqIds == {"r1", "r2"}

\* users.email is unique per user (models.py:29)
EmailOf(u) == CASE u = "u1" -> "e1" [] u = "u2" -> "e2" [] OTHER -> "e3"
Emails == {EmailOf(u) : u \in Users}

Roles == {"owner", "admin", "member", "viewer"}
Permissions == {"full", "edit", "view"}
NoRole == "none"
NoOrg == "none"
None == "-"

\* timedelta(days=7): one clock unit is the seven-day validity period
InvitationPeriods == 1

(***************************************************************************)
(* Role & permission model (utils/permissions.py)                          *)
(***************************************************************************)
\* ROLE_HIERARCHY.get(role, 0)
ROLE_HIERARCHY(role) ==
    CASE role = "owner" -> 4
      [] role = "admin" -> 3
      [] role = "member" -> 2
      [] role = "viewer" -> 1
      [] OTHER -> 0

\* PERMISSION_HIERARCHY.get(permission, 0)
PERMISSION_HIERARCHY(permission) ==
    CASE permission = "full" -> 3
      [] permission = "edit" -> 2
      [] permission = "view" -> 1
      [] OTHER -> 0

\* Organization.id == org_id, Organization.deleted_at.is_(None)
OrgActive(orgsT, o) == o \in DOMAIN orgsT /\ ~orgsT[o].deleted_at

\* variant: the membership row is looked up before the organization row
check_org_permission_member_first(orgsT, membersT, u, o, required_role) ==
    IF <<o, u>> \notin DOMAIN membersT THEN "not_member"
    ELSE IF ~OrgActive(orgsT, o) THEN "not_found"
    ELSE IF required_role # NoRole
            /\ ROLE_HIERARCHY(membersT[<<o, u>>].role) < ROLE_HIERARCHY(required_role)
         THEN "insufficient_role"
    ELSE "ok"

check_org_permission(orgsT, membersT, u, o, required_role) ==
    IF ~OrgActive(orgsT, o) THEN "not_found"
    ELSE IF <<o, u>> \notin DOMAIN membersT THEN "not_member"
    ELSE IF required_role # NoRole
            /\ ROLE_HIERARCHY(membersT[<<o, u>>].role) < ROLE_HIERARCHY(required_role)
         THEN "insufficient_role"
    ELSE "ok"

check_org_owner(orgsT, membersT, u, o) == check_org_permission(orgsT, membersT, u, o, "owner")

check_org_admin(orgsT, membersT, u, o) == check_org_permission(orgsT, membersT, u, o, "admin")

\* variant: the explicit AccountPermission row is consulted before the membership row
check_account_permission_explicit_first(accountsT, membersT, permsT, u, a, required_permission) ==
    IF a \notin DOMAIN accountsT \/ accountsT[a].deleted_at THEN "not_found"
    ELSE IF accountsT[a].organization_id = NoOrg
         THEN (IF accountsT[a].user_id # u THEN "access_denied" ELSE "granted")
    ELSE IF <<a, u>> \in DOMAIN permsT
            /\ PERMISSION_HIERARCHY(permsT[<<a, u>>].permission) >= PERMISSION_HIERARCHY(required_permission)
         THEN "granted"
    ELSE IF <<accountsT[a].organization_id, u>> \notin DOMAIN membersT THEN "not_member"
    ELSE IF membersT[<<accountsT[a].organization_id, u>>].role \in {"owner", "admin"} THEN "granted"
    ELSE IF accountsT[a].default_permission # ""
            /\ PERMISSION_HIERARCHY(accountsT[a].default_permission)
                 >= PERMISSION_HIERARCHY(required_permission)
         THEN "granted"
    ELSE IF membersT[<<accountsT[a].organization_id, u>>].role = "viewer"
            /\ required_permission = "view"
         THEN "granted"
    ELSE "insufficient_permission"

\* variant: an insufficient explicit AccountPermission is a hard deny
check_account_permission_hard_deny(accountsT, membersT, permsT, u, a, required_permission) ==
    IF a \notin DOMAIN accountsT \/ accountsT[a].deleted_at THEN "not_found"
    ELSE IF accountsT[a].organization_id = NoOrg
         THEN (IF accountsT[a].user_id # u THEN "access_denied" ELSE "granted")
    ELSE IF <<accountsT[a].organization_id, u>> \notin DOMAIN membersT THEN "not_member"
    ELSE IF membersT[<<accountsT[a].organization_id, u>>].role \in {"owner", "admin"} THEN "granted"
    ELSE IF <<a, u>> \in DOMAIN permsT
         THEN (IF PERMISSION_HIERARCHY(permsT[<<a, u>>].permission) >= PERMISSION_HIERARCHY(required_permission)
               THEN "granted" ELSE "insufficient_permission")
    ELSE IF accountsT[a].default_permission # ""
            /\ PERMISSION_HIERARCHY(accountsT[a].default_permission)
                 >= PERMISSION_HIERARCHY(required_permission)
         THEN "granted"
    ELSE IF membersT[<<accountsT[a].organization_id, u>>].role = "viewer"
            /\ required_permission = "view"
         THEN "granted"
    ELSE "insufficient_permission"

\* variant: only the owner bypasses the per-account checks
check_account_permission_owner_only_bypass(accountsT, membersT, permsT, u, a, required_permission) ==
    IF a \notin DOMAIN accountsT \/ accountsT[a].deleted_at THEN "not_found"
    ELSE IF accountsT[a].organization_id = NoOrg
         THEN (IF accountsT[a].user_id # u THEN "access_denied" ELSE "granted")
    ELSE IF <<accountsT[a].organization_id, u>> \notin DOMAIN membersT THEN "not_member"
    ELSE IF membersT[<<accountsT[a].organization_id, u>>].role \in {"owner"} THEN "granted"
    ELSE IF <<a, u>> \in DOMAIN permsT
            /\ PERMISSION_HIERARCHY(permsT[<<a, u>>].permission) >= PERMISSION_HIERARCHY(required_permission)
         THEN "granted"
    ELSE IF accountsT[a].default_permission # ""
            /\ PERMISSION_HIERARCHY(accountsT[a].default_permission)
                 >= PERMISSION_HIERARCHY(required_permission)
         THEN "granted"
    ELSE IF membersT[<<accountsT[a].organization_id, u>>].role = "viewer"
            /\ required_permission = "view"
         THEN "granted"
    ELSE "insufficient_permission"

\* variant: a personal account falls through to the AccountPermission rows
check_account_permission_personal_rows(accountsT, membersT, permsT, u, a, required_permission) ==
    IF a \notin DOMAIN accountsT \/ accountsT[a].deleted_at THEN "not_found"
    ELSE IF accountsT[a].organization_id = NoOrg
         THEN (IF accountsT[a].user_id = u THEN "granted"
               ELSE IF <<a, u>> \in DOMAIN permsT
                       /\ PERMISSION_HIERARCHY(permsT[<<a, u>>].permission)
                            >= PERMISSION_HIERARCHY(required_permission)
                    THEN "granted"
               ELSE "access_denied")
    ELSE IF <<accountsT[a].organization_id, u>> \notin DOMAIN membersT THEN "not_member"
    ELSE IF membersT[<<accountsT[a].organization_id, u>>].role \in {"owner", "admin"} THEN "granted"
    ELSE IF <<a, u>> \in DOMAIN permsT
            /\ PERMISSION_HIERARCHY(permsT[<<a, u>>].permission) >= PERMISSION_HIERARCHY(required_permission)
         THEN "granted"
    ELSE IF accountsT[a].default_permission # ""
            /\ PERMISSION_HIERARCHY(accountsT[a].default_permission)
                 >= PERMISSION_HIERARCHY(required_permission)
         THEN "granted"
    ELSE IF membersT[<<accountsT[a].organization_id, u>>].role = "viewer"
            /\ required_permission = "view"
         THEN "granted"
    ELSE "insufficient_permission"
\* variant: the default permission has to exceed the required level
check_account_permission_strict_default(accountsT, membersT, permsT, u, a, required_permission) ==
    IF a \notin DOMAIN accountsT \/ accountsT[a].deleted_at THEN "not_found"
    ELSE IF accountsT[a].organization_id = NoOrg
         THEN (IF accountsT[a].user_id # u THEN "access_denied" ELSE "granted")
    ELSE IF <<accountsT[a].organization_id, u>> \notin DOMAIN membersT THEN "not_member"
    ELSE IF membersT[<<accountsT[a].organization_id, u>>].role \in {"owner", "admin"} THEN "granted"
    ELSE IF <<a, u>> \in DOMAIN permsT
            /\ PERMISSION_HIERARCHY(permsT[<<a, u>>].permission) >= PERMISSION_HIERARCHY(required_permission)
         THEN "granted"
    ELSE IF accountsT[a].default_permission # ""
            /\ PERMISSION_HIERARCHY(accountsT[a].default_permission)
                 > PERMISSION_HIERARCHY(required_permission)
         THEN "granted"
    ELSE IF membersT[<<accountsT[a].organization_id, u>>].role = "viewer"
            /\ required_permission = "view"
         THEN "granted"
    ELSE "insufficient_permission"

check_account_permission(accountsT, membersT, permsT, u, a, required_permission) ==
    IF a \notin DOMAIN accountsT \/ accountsT[a].deleted_at THEN "not_found"
    ELSE IF accountsT[a].organization_id = NoOrg
         THEN (IF accountsT[a].user_id # u THEN "access_denied" ELSE "granted")
    ELSE IF <<accountsT[a].organization_id, u>> \notin DOMAIN membersT THEN "not_member"
    ELSE IF membersT[<<accountsT[a].organization_id, u>>].role \in {"owner", "admin"} THEN "granted"
    ELSE IF <<a, u>> \in DOMAIN permsT
            /\ PERMISSION_HIERARCHY(permsT[<<a, u>>].permission) >= PERMISSION_HIERARCHY(required_permission)
         THEN "granted"
    ELSE IF accountsT[a].default_permission # ""
            /\ PERMISSION_HIERARCHY(accountsT[a].default_permission)
                 >= PERMISSION_HIERARCHY(required_permission)
         THEN "granted"
    ELSE IF membersT[<<accountsT[a].organization_id, u>>].role = "viewer"
            /\ required_permission = "view"
         THEN "granted"
    ELSE "insufficient_permission"
\* variant: an admin is refused for owners only
can_manage_member_admin_peers(manager_role, manager_user, target_role, target_user) ==
    IF manager_role = "owner"
    THEN (IF target_role = "owner" /\ manager_user # target_user THEN "forbidden" ELSE "ok")
    ELSE IF manager_role = "admin"
    THEN (IF target_role = "owner" THEN "forbidden" ELSE "ok")
    ELSE "forbidden"

can_manage_member(manager_role, manager_user, target_role, target_user) ==
    IF manager_role = "owner"
    THEN (IF target_role = "owner" /\ manager_user # target_user THEN "forbidden" ELSE "ok")
    ELSE IF manager_role = "admin"
    THEN (IF target_role \in {"owner", "admin"} THEN "forbidden" ELSE "ok")
    ELSE "forbidden"

validate_role_transition(current_role, new_role, actor_role) ==
    IF new_role = "owner" THEN "value_error"
    ELSE IF current_role = "owner" /\ actor_role # "owner" THEN "value_error"
    ELSE "ok"

verify_invitation_token_rejected_reusable(invT, t, clock) ==
    IF t \notin DOMAIN invT THEN "not_found"
    ELSE IF invT[t].accepted_at THEN "already_accepted"
    ELSE IF invT[t].expires_at < clock THEN "expired"
    ELSE "ok"

verify_invitation_token_expiry_first(invT, t, clock) ==
    IF t \notin DOMAIN invT THEN "not_found"
    ELSE IF invT[t].expires_at < clock THEN "expired"
    ELSE IF invT[t].accepted_at THEN "already_accepted"
    ELSE IF invT[t].rejected_at THEN "already_rejected"
    ELSE "ok"

\* the token checks of verify_invitation_token, in the order the code makes them
verify_invitation_token(invT, t, clock) ==
    IF t \notin DOMAIN invT THEN "not_found"
    ELSE IF invT[t].accepted_at THEN "already_accepted"
    ELSE IF invT[t].rejected_at THEN "already_rejected"
    ELSE IF invT[t].expires_at < clock THEN "expired"
    ELSE "ok"

(***************************************************************************)
(* Table helpers                                                           *)
(***************************************************************************)
Insert(table, key, row) ==
    [k \in DOMAIN table \cup {key} |-> IF k = key THEN row ELSE table[k]]

Delete(table, key) == [k \in DOMAIN table \ {key} |-> table[k]]

EmptyTable == [k \in {} |-> None]

Response(op, actor, obj, arg, result) ==
    [op |-> op, actor |-> actor, obj |-> obj, arg |-> arg, result |-> result]

Owners(membersT, o) == {u \in Users : <<o, u>> \in DOMAIN membersT /\ membersT[<<o, u>>].role = "owner"}

(***************************************************************************)
(* Audit log (utils/permissions.py log_audit).  No handler reads the       *)
(* audit_logs table except get_audit_logs, so its rows never influence     *)
(* another table; specifications whose properties do not mention the table *)
(* start with audit_logs = NotObserved and keep it so, the others start    *)
(* with the empty table.  log_audit commits in a transaction of its own,   *)
(* after the handler's commit; where the table is observed that commit may *)
(* also fail (a storage fault), and the SQLAlchemyError reaches the        *)
(* exception handler of main.py                                            *)
(***************************************************************************)
NotObserved ==
    {[id |-> 0, organization_id |-> None, user_id |-> None, action |-> "not_observed",
      created_at |-> 0]}

AuditLog(action, o, u) ==
    [id |-> Cardinality(audit_logs) + 1, organization_id |-> o, user_id |-> u,
     action |-> action, created_at |-> now]

MaxAudit == 2

\* variant: the new row replaces the rows already stored
log_audit_overwriting(action, o, u) ==
    /\ audit_logs # NotObserved => Cardinality(audit_logs) < MaxAudit
    /\ audit_logs' = IF audit_logs = NotObserved THEN NotObserved
                     ELSE {AuditLog(action, o, u)}

log_audit(action, o, u) ==
    /\ audit_logs # NotObserved => Cardinality(audit_logs) < MaxAudit
    /\ audit_logs' = IF audit_logs = NotObserved THEN NotObserved
                     ELSE audit_logs \cup {AuditLog(action, o, u)}

\* a commit that raises: possible where the table is observed
storage_fault ==
    /\ audit_logs # NotObserved
    /\ Cardinality(audit_logs) < MaxAudit

log_audit_fault ==
    /\ storage_fault
    /\ audit_logs' = audit_logs

\* a handler that calls log_audit after its commit and then returns
audited_response(op, actor, obj, arg, action, o) ==
    \/ /\ log_audit(action, o, actor)
       /\ resp' = Response(op, actor, obj, arg, "ok")
    \/ /\ log_audit_fault
       /\ resp' = Response(op, actor, obj, arg, "internal_error")

(***************************************************************************)
(* Initial state: empty tables                                             *)
(***************************************************************************)
Init ==
    /\ schema \in {"alembic", "metadata"}
    /\ users = {}
    /\ orgs = EmptyTable
    /\ members = EmptyTable
    /\ invitations = EmptyTable
    /\ accounts = EmptyTable
    /\ perms = EmptyTable
    /\ txns = EmptyTable
    /\ now = 0
    /\ resp = Response("init", None, None, None, "ok")
    /\ reqs = EmptyTable
    /\ issued = DOMAIN invitations
    /\ audit_logs = NotObserved

(***************************************************************************)
(* Request handlers, each executed as one transaction                      *)
(***************************************************************************)
\* routers/auth.py register: user + default organization + owner membership
register(u) ==
    /\ u \notin users
    /\ \E o \in FreshOrgs \ DOMAIN orgs, wrapped_org_key \in EnrolKeys :
        /\ o = CHOOSE x \in FreshOrgs \ DOMAIN orgs : TRUE
        /\ users' = users \cup {u}
        /\ orgs' = Insert(orgs, o, [deleted_at |-> FALSE])
        /\ members' = Insert(members, <<o, u>>, [role |-> "owner", copies |-> 1,
                                               wrapped_org_key |-> wrapped_org_key])
        /\ (log_audit("user_registered", o, u) \/ log_audit_fault)
        /\ resp' = Response("register", u, o, None, "ok")
    /\ UNCHANGED <<schema, invitations, accounts, perms, txns, now, reqs, issued>>

\* routers/organizations.py create_organization
create_organization(u) ==
    /\ u \in users
    /\ \E o \in FreshOrgs \ DOMAIN orgs, wrapped_org_key \in EnrolKeys :
        /\ o = CHOOSE x \in FreshOrgs \ DOMAIN orgs : TRUE
        /\ orgs' = Insert(orgs, o, [deleted_at |-> FALSE])
        /\ members' = Insert(members, <<o, u>>, [role |-> "owner", copies |-> 1,
                                               wrapped_org_key |-> wrapped_org_key])
        /\ audited_response("create_organization", u, o, None, "org_created", o)
    /\ UNCHANGED <<schema, users, invitations, accounts, perms, txns, now, reqs, issued>>

\* routers/invitations.py create_invitation
ActiveInvitation(invT, o, email, clock) ==
    \E t \in DOMAIN invT :
        /\ invT[t].organization_id = o
        /\ invT[t].email = email
        /\ ~invT[t].accepted_at
        /\ ~invT[t].rejected_at
        /\ invT[t].expires_at > clock

ExistingMemberByEmail(membersT, o, email) ==
    \E u \in users : EmailOf(u) = email /\ <<o, u>> \in DOMAIN membersT

\* uq_org_invitation (organization_id, email) exists only in the alembic-built schema
InvitationInsertConflict(invT, o, email) ==
    /\ schema = "alembic"
    /\ \E t \in DOMAIN invT : invT[t].organization_id = o /\ invT[t].email = email

create_invitation_result_any_role(actor, o, email, role) ==
    IF check_org_admin(orgs, members, actor, o) # "ok"
         THEN check_org_admin(orgs, members, actor, o)
    ELSE IF ExistingMemberByEmail(members, o, email) THEN "already_member"
    ELSE IF ActiveInvitation(invitations, o, email, now) THEN "active_invitation_exists"
    ELSE IF InvitationInsertConflict(invitations, o, email) THEN "integrity_error"
    ELSE "ok"

\* variant: neither the inviter's role nor the invitee's membership is looked at
create_invitation_result_unchecked(actor, o, email, role) ==
    IF role = "owner" THEN "validation_error"
    ELSE IF ~OrgActive(orgs, o) THEN "not_found"
    ELSE IF ActiveInvitation(invitations, o, email, now) THEN "active_invitation_exists"
    ELSE IF InvitationInsertConflict(invitations, o, email) THEN "integrity_error"
    ELSE "ok"

create_invitation_result(actor, o, email, role) ==
    IF role = "owner" THEN "validation_error"
    ELSE IF check_org_admin(orgs, members, actor, o) # "ok"
         THEN check_org_admin(orgs, members, actor, o)
    ELSE IF ExistingMemberByEmail(members, o, email) THEN "already_member"
    ELSE IF ActiveInvitation(invitations, o, email, now) THEN "active_invitation_exists"
    ELSE IF InvitationInsertConflict(invitations, o, email) THEN "integrity_error"
    ELSE "ok"

create_invitation(actor, o, email, role) ==
    /\ actor \in users
    /\ create_invitation_result(actor, o, email, role) = "ok"
    /\ \E t \in FreshTokens \ issued, wrapped_org_key \in EnrolKeys :
        /\ t = CHOOSE x \in FreshTokens \ issued : TRUE
        /\ issued' = issued \cup {t}
        /\ invitations' = Insert(invitations, t,
               [organization_id |-> o, email |-> email, role |-> role,
                expires_at |-> now + InvitationPeriods,
                accepted_at |-> FALSE, rejected_at |-> FALSE,
                wrapped_org_key |-> wrapped_org_key])
        /\ audited_response("create_invitation", actor, t, role, "member_invited", o)
    /\ UNCHANGED <<schema, users, orgs, members, accounts, perms, txns, now, reqs>>

accept_invitation_result_any_user(invT, membersT, clock, u, t) ==
    IF verify_invitation_token(invT, t, clock) # "ok"
    THEN verify_invitation_token(invT, t, clock)
    ELSE IF <<invT[t].organization_id, u>> \in DOMAIN membersT THEN "already_member"
    ELSE "ok"

\* routers/invitations.py accept_invitation
accept_invitation_result(invT, membersT, clock, u, t) ==
    IF verify_invitation_token(invT, t, clock) # "ok"
    THEN verify_invitation_token(invT, t, clock)
    ELSE IF invT[t].email # EmailOf(u) THEN "forbidden"
    ELSE IF <<invT[t].organization_id, u>> \in DOMAIN membersT THEN "already_member"
    ELSE "ok"

\* variant: the membership takes over the invitation's own wrapped key
accept_invitation_invitation_key(u, t) ==
    /\ u \in users
    /\ accept_invitation_result(invitations, members, now, u, t) = "ok"
    /\ \E wrapped_org_key \in AcceptKeys :
        /\ members' = Insert(members, <<invitations[t].organization_id, u>>,
                             [role |-> invitations[t].role, copies |-> 1,
                              wrapped_org_key |-> invitations[t].wrapped_org_key])
        /\ invitations' = [invitations EXCEPT ![t].accepted_at = TRUE]
        /\ audited_response("accept_invitation", u, t, wrapped_org_key, "member_joined",
                            invitations[t].organization_id)
    /\ UNCHANGED <<schema, users, orgs, accounts, perms, txns, now, reqs, issued>>

accept_invitation(u, t) ==
    /\ u \in users
    /\ accept_invitation_result(invitations, members, now, u, t) = "ok"
    /\ \E wrapped_org_key \in AcceptKeys :
        /\ members' = Insert(members, <<invitations[t].organization_id, u>>,
                             [role |-> invitations[t].role, copies |-> 1,
                              wrapped_org_key |-> wrapped_org_key])
        /\ invitations' = [invitations EXCEPT ![t].accepted_at = TRUE]
        /\ audited_response("accept_invitation", u, t, wrapped_org_key, "member_joined",
                            invitations[t].organization_id)
    /\ UNCHANGED <<schema, users, orgs, accounts, perms, txns, now, reqs, issued>>

\* routers/invitations.py reject_invitation
reject_invitation_result(invT, clock, u, t) ==
    IF verify_invitation_token(invT, t, clock) # "ok"
    THEN verify_invitation_token(invT, t, clock)
    ELSE IF invT[t].email # EmailOf(u) THEN "forbidden"
    ELSE "ok"

reject_invitation(u, t) ==
    /\ u \in users
    /\ reject_invitation_result(invitations, now, u, t) = "ok"
    /\ invitations' = [invitations EXCEPT ![t].rejected_at = TRUE]
    /\ audited_response("reject_invitation", u, t, None, "invitation_rejected", invitations[t].organization_id)
    /\ UNCHANGED <<schema, users, orgs, members, accounts, perms, txns, now, reqs, issued>>

update_member_role_result_unchecked(orgsT, membersT, actor, o, target, new_role) ==
    IF check_org_admin(orgsT, membersT, actor, o) # "ok"
         THEN check_org_admin(orgsT, membersT, actor, o)
    ELSE IF <<o, target>> \notin DOMAIN membersT THEN "not_found"
    ELSE "ok"

\* routers/organizations.py update_member_role
update_member_role_result(orgsT, membersT, actor, o, target, new_role) ==
    IF new_role = "owner" THEN "validation_error"
    ELSE IF check_org_admin(orgsT, membersT, actor, o) # "ok"
         THEN check_org_admin(orgsT, membersT, actor, o)
    ELSE IF <<o, target>> \notin DOMAIN membersT THEN "not_found"
    ELSE IF can_manage_member(membersT[<<o, actor>>].role, actor,
                              membersT[<<o, target>>].role, target) # "ok"
         THEN "forbidden"
    ELSE IF validate_role_transition(membersT[<<o, target>>].role, new_role,
                                     membersT[<<o, actor>>].role) # "ok"
         THEN "value_error"
    ELSE "ok"

update_member_role(actor, o, target, new_role) ==
    /\ actor \in users
    /\ update_member_role_result(orgs, members, actor, o, target, new_role) = "ok"
    /\ members' = [members EXCEPT ![<<o, target>>].role = new_role]
    /\ audited_response("update_member_role", actor, o, target, "member_role_changed", o)
    /\ UNCHANGED <<schema, users, orgs, invitations, accounts, perms, txns, now, reqs, issued>>

remove_member_result_no_owner_guard(orgsT, membersT, actor, o, target) ==
    IF check_org_admin(orgsT, membersT, actor, o) # "ok"
    THEN check_org_admin(orgsT, membersT, actor, o)
    ELSE IF <<o, target>> \notin DOMAIN membersT THEN "not_found"
    ELSE IF can_manage_member(membersT[<<o, actor>>].role, actor,
                              membersT[<<o, target>>].role, target) # "ok"
         THEN "forbidden"
    ELSE "ok"

\* routers/organizations.py remove_member
remove_member_result(orgsT, membersT, actor, o, target) ==
    IF check_org_admin(orgsT, membersT, actor, o) # "ok"
    THEN check_org_admin(orgsT, membersT, actor, o)
    ELSE IF <<o, target>> \notin DOMAIN membersT THEN "not_found"
    ELSE IF membersT[<<o, target>>].role = "owner" THEN "cannot_remove_owner"
    ELSE IF can_manage_member(membersT[<<o, actor>>].role, actor,
                              membersT[<<o, target>>].role, target) # "ok"
         THEN "forbidden"
    ELSE "ok"

remove_member(actor, o, target) ==
    /\ actor \in users
    /\ remove_member_result(orgs, members, actor, o, target) = "ok"
    /\ members' = Delete(members, <<o, target>>)
    /\ audited_response("remove_member", actor, o, target, "member_removed", o)
    /\ UNCHANGED <<schema, users, orgs, invitations, accounts, perms, txns, now, reqs, issued>>

\* routers/organizations.py transfer_ownership
transfer_ownership_result(orgsT, membersT, actor, o, new_owner) ==
    IF check_org_owner(orgsT, membersT, actor, o) # "ok"
    THEN check_org_owner(orgsT, membersT, actor, o)
    ELSE IF <<o, new_owner>> \notin DOMAIN membersT THEN "not_found"
    ELSE IF new_owner = actor THEN "already_owner"
    ELSE "ok"

transfer_ownership_promote_only(actor, o, new_owner) ==
    /\ actor \in users
    /\ transfer_ownership_result(orgs, members, actor, o, new_owner) = "ok"
    /\ members' = [members EXCEPT ![<<o, new_owner>>].role = "owner"]
    /\ audited_response("transfer_ownership", actor, o, new_owner, "ownership_transferred", o)
    /\ UNCHANGED <<schema, users, orgs, invitations, accounts, perms, txns, now, reqs, issued>>

transfer_ownership(actor, o, new_owner) ==
    /\ actor \in users
    /\ transfer_ownership_result(orgs, members, actor, o, new_owner) = "ok"
    /\ members' = [members EXCEPT ![<<o, actor>>].role = "admin",
                                  ![<<o, new_owner>>].role = "owner"]
    /\ audited_response("transfer_ownership", actor, o, new_owner, "ownership_transferred", o)
    /\ UNCHANGED <<schema, users, orgs, invitations, accounts, perms, txns, now, reqs, issued>>

(***************************************************************************)
(* Accounts, account permissions and transactions                          *)
(***************************************************************************)
\* routers/accounts.py create_account: no membership check; default_permission
\* takes the column default, and so do the legacy plaintext columns (name stands
\* for name and opening_balance), which the handler never sets
create_account(u, o, encrypted_data, encrypted_dek) ==
    /\ u \in users
    /\ o \in DOMAIN orgs \cup {NoOrg}
    /\ \E a \in Accounts \ DOMAIN accounts :
        /\ a = CHOOSE x \in Accounts \ DOMAIN accounts : TRUE
        /\ accounts' = Insert(accounts, a,
               [user_id |-> u, organization_id |-> o,
                default_permission |-> "view", deleted_at |-> FALSE,
                encrypted_data |-> encrypted_data, encrypted_dek |-> encrypted_dek,
                name |-> None])
        /\ resp' = Response("create_account", u, a,
                            [organization_id |-> o, encrypted_data |-> encrypted_data,
                             encrypted_dek |-> encrypted_dek], "ok")
    /\ UNCHANGED <<schema, users, orgs, members, invitations, perms, txns, now, reqs, issued, audit_logs>>

\* routers/accounts.py update_account: account_data carries encrypted_data,
\* organization_id and wrapped_dek, each of them optional (None when absent)
AccountUpdates ==
    [encrypted_data : {None}, organization_id : Orgs, wrapped_dek : {None}]
    \cup [encrypted_data : {"b2"}, organization_id : {None}, wrapped_dek : {None, "d2"}]

update_account_result(accountsT, u, a) ==
    IF a \notin DOMAIN accountsT \/ accountsT[a].user_id # u \/ accountsT[a].deleted_at
    THEN "not_found"
    ELSE "ok"

update_account(u, a, account_data) ==
    /\ u \in users
    /\ account_data.organization_id \in DOMAIN orgs \cup {None}
    /\ update_account_result(accounts, u, a) = "ok"
    /\ accounts' = [accounts EXCEPT
         ![a].encrypted_data = IF account_data.encrypted_data # None
                               THEN account_data.encrypted_data ELSE @,
         ![a].organization_id = IF account_data.organization_id # None
                                THEN account_data.organization_id ELSE @,
         ![a].encrypted_dek = IF account_data.wrapped_dek # None
                              THEN account_data.wrapped_dek ELSE @]
    /\ resp' = Response("update_account", u, a, account_data, "ok")
    /\ UNCHANGED <<schema, users, orgs, members, invitations, perms, txns, now, reqs, issued, audit_logs>>

\* routers/accounts.py set_account_permission
set_account_permission_result(accountsT, membersT, permsT, actor, a, target, permission) ==
    IF check_account_permission(accountsT, membersT, permsT, actor, a, "full") # "granted"
    THEN check_account_permission(accountsT, membersT, permsT, actor, a, "full")
    ELSE IF permission \notin {"full", "edit", "view"} THEN "bad_request"
    ELSE IF accountsT[a].organization_id = NoOrg THEN "not_found"
    ELSE IF target \notin users THEN "not_found"
    ELSE IF <<accountsT[a].organization_id, target>> \notin DOMAIN membersT THEN "bad_request"
    ELSE "ok"

set_account_permission(actor, a, target, permission) ==
    /\ actor \in users
    /\ set_account_permission_result(accounts, members, perms, actor, a, target, permission) = "ok"
    /\ perms' = IF <<a, target>> \in DOMAIN perms
               THEN [perms EXCEPT ![<<a, target>>].permission = permission]
               ELSE Insert(perms, <<a, target>>, [permission |-> permission, copies |-> 1])
    /\ resp' = Response("set_account_permission", actor, a, target, "ok")
    /\ UNCHANGED <<schema, users, orgs, members, invitations, accounts, txns, now, reqs, issued, audit_logs>>

\* routers/accounts.py remove_account_permission
remove_account_permission_result(accountsT, membersT, permsT, actor, a) ==
    IF check_account_permission(accountsT, membersT, permsT, actor, a, "full") # "granted"
    THEN check_account_permission(accountsT, membersT, permsT, actor, a, "full")
    ELSE IF accountsT[a].organization_id = NoOrg THEN "not_found"
    ELSE "ok"

remove_account_permission(actor, a, target) ==
    /\ actor \in users
    /\ remove_account_permission_result(accounts, members, perms, actor, a) = "ok"
    /\ perms' = IF <<a, target>> \in DOMAIN perms /\ perms[<<a, target>>].copies > 1
               THEN [perms EXCEPT ![<<a, target>>].copies = @ - 1]
               ELSE Delete(perms, <<a, target>>)
    /\ resp' = Response("remove_account_permission", actor, a, target, "ok")
    /\ UNCHANGED <<schema, users, orgs, members, invitations, accounts, txns, now, reqs, issued, audit_logs>>

\* routers/transactions.py check_account_access
check_account_access(accountsT, membersT, a, u) ==
    IF a \notin DOMAIN accountsT \/ accountsT[a].deleted_at THEN "not_found"
    ELSE IF accountsT[a].organization_id # NoOrg
         THEN (IF <<accountsT[a].organization_id, u>> \notin DOMAIN membersT
               THEN "forbidden" ELSE "ok")
    ELSE IF accountsT[a].user_id # u THEN "forbidden"
    ELSE "ok"

\* routers/transactions.py create_transaction
create_transaction(u, a, blob) ==
    /\ u \in users
    /\ check_account_access(accounts, members, a, u) = "ok"
    /\ \E x \in Txns \ DOMAIN txns :
        /\ x = CHOOSE y \in Txns \ DOMAIN txns : TRUE
        /\ txns' = Insert(txns, x, [account_id |-> a, encrypted_data |-> blob,
                                    deleted_at |-> FALSE, amount |-> None])
        /\ resp' = Response("create_transaction", u, x,
                            [account_id |-> a, encrypted_data |-> blob], "ok")
    /\ UNCHANGED <<schema, users, orgs, members, invitations, accounts, perms, now, reqs, issued, audit_logs>>

\* variant: the stored blob is kept whatever the request carries
update_transaction_keeps_blob(u, x, blob) ==
    /\ u \in users
    /\ x \in DOMAIN txns
    /\ ~txns[x].deleted_at
    /\ check_account_access(accounts, members, txns[x].account_id, u) = "ok"
    /\ txns' = txns
    /\ resp' = Response("update_transaction", u, x,
                        [account_id |-> txns[x].account_id, encrypted_data |-> blob], "ok")
    /\ UNCHANGED <<schema, users, orgs, members, invitations, accounts, perms, now, reqs, issued, audit_logs>>

\* routers/transactions.py update_transaction; encrypted_data is optional in
\* TransactionUpdate (blob = None when the request leaves it out)
update_transaction(u, x, blob) ==
    /\ u \in users
    /\ x \in DOMAIN txns
    /\ ~txns[x].deleted_at
    /\ check_account_access(accounts, members, txns[x].account_id, u) = "ok"
    /\ txns' = [txns EXCEPT ![x].encrypted_data = IF blob # None THEN blob ELSE @]
    /\ resp' = Response("update_transaction", u, x,
                        [account_id |-> txns[x].account_id, encrypted_data |-> blob], "ok")
    /\ UNCHANGED <<schema, users, orgs, members, invitations, accounts, perms, now, reqs, issued, audit_logs>>

\* routers/transactions.py delete_transaction (soft delete)
delete_transaction(u, x) ==
    /\ u \in users
    /\ x \in DOMAIN txns
    /\ ~txns[x].deleted_at
    /\ check_account_access(accounts, members, txns[x].account_id, u) = "ok"
    /\ txns' = [txns EXCEPT ![x].deleted_at = TRUE]
    /\ resp' = Response("delete_transaction", u, x,
                        [account_id |-> txns[x].account_id, encrypted_data |-> None], "ok")
    /\ UNCHANGED <<schema, users, orgs, members, invitations, accounts, perms, now, reqs, issued, audit_logs>>

\* routers/transactions.py restore_transaction
restore_transaction(u, x) ==
    /\ u \in users
    /\ x \in DOMAIN txns
    /\ txns[x].deleted_at
    /\ check_account_access(accounts, members, txns[x].account_id, u) = "ok"
    /\ txns' = [txns EXCEPT ![x].deleted_at = FALSE]
    /\ resp' = Response("restore_transaction", u, x,
                        [account_id |-> txns[x].account_id, encrypted_data |-> None], "ok")
    /\ UNCHANGED <<schema, users, orgs, members, invitations, accounts, perms, now, reqs, issued, audit_logs>>

\* datetime.now() moves on
\* routers/accounts.py get_account: the row as AccountResponse returns it
get_account(u, a) ==
    /\ u \in users
    /\ check_account_access(accounts, members, a, u) = "ok"
    /\ resp' = Response("get_account", u, a, None,
                        [encrypted_data |-> accounts[a].encrypted_data,
                         encrypted_dek |-> accounts[a].encrypted_dek])
    /\ UNCHANGED <<schema, users, orgs, members, invitations, accounts, perms, txns, now, reqs, issued, audit_logs>>

\* routers/transactions.py get_transaction
get_transaction(u, x) ==
    /\ u \in users
    /\ x \in DOMAIN txns
    /\ ~txns[x].deleted_at
    /\ check_account_access(accounts, members, txns[x].account_id, u) = "ok"
    /\ resp' = Response("get_transaction", u, x, None,
                        [encrypted_data |-> txns[x].encrypted_data])
    /\ UNCHANGED <<schema, users, orgs, members, invitations, accounts, perms, txns, now, reqs, issued, audit_logs>>

\* routers/transactions.py get_transactions: the active transactions of the account
get_transactions(u, a) ==
    /\ u \in users
    /\ check_account_access(accounts, members, a, u) = "ok"
    /\ resp' = Response("get_transactions", u, a, None,
                        {[id |-> x, encrypted_data |-> txns[x].encrypted_data] :
                           x \in {y \in DOMAIN txns : /\ txns[y].account_id = a
                                                       /\ ~txns[y].deleted_at}})
    /\ UNCHANGED <<schema, users, orgs, members, invitations, accounts, perms, txns, now, reqs, issued, audit_logs>>
(***************************************************************************)
(* Organization deletion                                                   *)
(***************************************************************************)
\* routers/organizations.py delete_organization
delete_organization_result(orgsT, membersT, actor, o) ==
    IF check_org_owner(orgsT, membersT, actor, o) # "ok"
    THEN check_org_owner(orgsT, membersT, actor, o)
    ELSE "ok"

\* the organization and its live accounts are tombstoned and the audit row is
\* written in the same transaction: log_audit's commit is the one that stores
\* them, and when it fails nothing is stored
delete_organization(actor, o) ==
    /\ actor \in users
    /\ delete_organization_result(orgs, members, actor, o) = "ok"
    /\ \/ /\ orgs' = [orgs EXCEPT ![o].deleted_at = TRUE]
          /\ accounts' = [a \in DOMAIN accounts |->
                            IF accounts[a].organization_id = o /\ ~accounts[a].deleted_at
                            THEN [accounts[a] EXCEPT !.deleted_at = TRUE]
                            ELSE accounts[a]]
          /\ log_audit("org_deleted", o, actor)
          /\ resp' = Response("delete_organization", actor, o, None, "ok")
       \/ /\ log_audit_fault
          /\ resp' = Response("delete_organization", actor, o, None, "internal_error")
          /\ UNCHANGED <<orgs, accounts>>
    /\ UNCHANGED <<schema, users, members, invitations, perms, txns, now, reqs, issued>>

tick ==
    /\ now < MaxTime
    /\ now' = now + 1
    /\ UNCHANGED <<schema, users, orgs, members, invitations, accounts, perms, txns, resp, reqs, issued, audit_logs>>

(***************************************************************************)
(* Spec: the membership and invitation requests, one transaction each      *)
(***************************************************************************)
Next ==
    \/ \E u \in Registrants : register(u)
    \/ \E u \in Users : create_organization(u)
    \/ \E u \in Users, o \in Orgs, e \in Emails, r \in Roles : create_invitation(u, o, e, r)
    \/ \E u \in Users, t \in Tokens : accept_invitation(u, t)
    \/ \E u \in Users, t \in Tokens : reject_invitation(u, t)
    \/ \E u \in Users, o \in Orgs, v \in Users, r \in Roles : update_member_role(u, o, v, r)
    \/ \E u \in Users, o \in Orgs, v \in Users : remove_member(u, o, v)
    \/ \E u \in Users, o \in Orgs, v \in Users : transfer_ownership(u, o, v)
    \/ tick

Spec == Init /\ [][Next]_vars

(***************************************************************************)
(* SpecAccess: account, permission and transaction requests of two         *)
(* registered users.  It starts where Spec stands after register(u1),      *)
(* register(u2) and, when u2 has joined o1, create_invitation(u1, o1, e2,  *)
(* role) and accept_invitation(u2, t1).                                    *)
(***************************************************************************)
InitAccess ==
    /\ schema = "alembic"
    /\ users = {"u1", "u2"}
    /\ orgs = [o \in {"o1", "o2"} |-> [deleted_at |-> FALSE]]
    /\ \E joined \in {NoRole, "admin", "member", "viewer"} :
        /\ members = [k \in {<<"o1", "u1">>, <<"o2", "u2">>}
                             \cup (IF joined = NoRole THEN {} ELSE {<<"o1", "u2">>})
                        |-> [role |-> IF k = <<"o1", "u2">> THEN joined ELSE "owner",
                             copies |-> 1, wrapped_org_key |-> "k1"]]
        /\ invitations =
             IF joined = NoRole THEN EmptyTable
             ELSE [t \in {"t1"} |->
                     [organization_id |-> "o1", email |-> "e2", role |-> joined,
                      expires_at |-> InvitationPeriods,
                      accepted_at |-> TRUE, rejected_at |-> FALSE, wrapped_org_key |-> "k1"]]
    /\ accounts = EmptyTable
    /\ perms = EmptyTable
    /\ txns = EmptyTable
    /\ now = 0
    /\ resp = Response("init", None, None, None, "ok")
    /\ reqs = EmptyTable
    /\ issued = DOMAIN invitations
    /\ audit_logs = NotObserved

NextAccess ==
    \/ \E u \in Users, o \in Orgs \cup {NoOrg} : create_account(u, o, "b1", "d1")
    \/ \E u \in Users, a \in Accounts, account_data \in AccountUpdates :
         update_account(u, a, account_data)
    \/ \E u \in Users, a \in Accounts, v \in Users, p \in Permissions :
          set_account_permission(u, a, v, p)
    \/ \E u \in Users, a \in Accounts, v \in Users : remove_account_permission(u, a, v)
    \/ \E u \in Users, a \in Accounts, b \in Blobs : create_transaction(u, a, b)
    \/ \E u \in Users, x \in Txns, b \in Blobs : update_transaction(u, x, b)
    \/ \E u \in Users, x \in Txns : delete_transaction(u, x)
    \/ \E u \in Users, x \in Txns : restore_transaction(u, x)
    \/ \E u \in Users, o \in Orgs, v \in Users : remove_member(u, o, v)

SpecAccess == InitAccess /\ [][NextAccess]_vars

\* C1: every organization has exactly one membership whose role is owner
SingleOwner == \A o \in DOMAIN orgs : Cardinality(Owners(members, o)) = 1

\* C6: a user with no membership row in an organization account's organization
\* is refused every required permission (not-a-member), also after being
\* removed, with an AccountPermission row left over, or as creator of record
NonMemberDenied ==
    \A u \in Users, a \in DOMAIN accounts, r \in Permissions :
        (/\ accounts[a].organization_id # NoOrg
         /\ <<accounts[a].organization_id, u>> \notin DOMAIN members)
        => check_account_permission(accounts, members, perms, u, a, r)
             = (IF accounts[a].deleted_at THEN "not_found" ELSE "not_member")

\* a removed member who created the account and still has an AccountPermission row on it
RemovedMemberWithGrant ==
    /\ resp.op = "remove_member"
    /\ <<resp.obj, resp.arg>> \notin DOMAIN members
    /\ \E a \in DOMAIN accounts :
        /\ accounts[a].organization_id = resp.obj
        /\ ~accounts[a].deleted_at
        /\ accounts[a].user_id = resp.arg
        /\ <<a, resp.arg>> \in DOMAIN perms
        /\ perms[<<a, resp.arg>>].permission = "full"

StoredRoles == Roles \cup {"guest"}
StoredDefaults == Permissions \cup {""}

InitResolver ==
    /\ schema = "alembic"
    /\ users = {"u1", "u2"}
    /\ orgs \in {EmptyTable} \cup {[o \in {"o1"} |-> [deleted_at |-> d]] : d \in BOOLEAN}
    /\ members \in {EmptyTable} \cup
         {[k \in {<<"o1", "u1">>} |-> [role |-> r, copies |-> 1, wrapped_org_key |-> "k1"]] : r \in StoredRoles}
    /\ DOMAIN members # {} => "o1" \in DOMAIN orgs
    /\ invitations = EmptyTable
    /\ accounts \in {EmptyTable} \cup
         {[a \in {"a1"} |-> [user_id |-> u, organization_id |-> o,
                             default_permission |-> p, deleted_at |-> d,
                             encrypted_data |-> "b1", encrypted_dek |-> "d1",
                             name |-> None]] :
            u \in {"u1", "u2"}, o \in {NoOrg, "o1"}, p \in StoredDefaults, d \in BOOLEAN}
    /\ \A a \in DOMAIN accounts :
         accounts[a].organization_id # NoOrg => accounts[a].organization_id \in DOMAIN orgs
    /\ perms \in {EmptyTable} \cup {[k \in {<<"a1", "u1">>} |-> [permission |-> p, copies |-> 1]] : p \in Permissions}
    /\ DOMAIN perms # {} => "a1" \in DOMAIN accounts
    /\ txns = EmptyTable
    /\ now = 0
    /\ resp = Response("init", None, None, None, "ok")
    /\ reqs = EmptyTable
    /\ issued = DOMAIN invitations
    /\ audit_logs = NotObserved

apply_check_org_permission(u, o, required_role) ==
    /\ u \in users
    /\ resp' = Response("check_org_permission", u, o, required_role,
                        check_org_permission(orgs, members, u, o, required_role))
    /\ UNCHANGED <<schema, users, orgs, members, invitations, accounts, perms, txns, now, reqs, issued, audit_logs>>

apply_check_account_permission(u, a, required_permission) ==
    /\ u \in users
    /\ resp' = Response("check_account_permission", u, a, required_permission,
                        check_account_permission(accounts, members, perms, u, a,
                                                 required_permission))
    /\ UNCHANGED <<schema, users, orgs, members, invitations, accounts, perms, txns, now, reqs, issued, audit_logs>>

NextResolver ==
    \/ \E u \in Users, o \in Orgs, r \in Roles \cup {NoRole} : apply_check_org_permission(u, o, r)
    \/ \E u \in Users, a \in Accounts, p \in Permissions : apply_check_account_permission(u, a, p)

SpecResolver == InitResolver /\ [][NextResolver]_vars

\* the two hierarchies as the specification orders them
RoleOrder == <<"viewer", "member", "admin", "owner">>
PermissionOrder == <<"view", "edit", "full">>
Rank(order, x) == IF \E i \in DOMAIN order : order[i] = x
                  THEN CHOOSE i \in DOMAIN order : order[i] = x
                  ELSE 0

CheckedAccount == resp.obj
CheckedUser == resp.actor
CheckedOrgAccount ==
    /\ resp.op = "check_account_permission"
    /\ CheckedAccount \in DOMAIN accounts
    /\ ~accounts[CheckedAccount].deleted_at
    /\ accounts[CheckedAccount].organization_id # NoOrg
CheckedMemberKey == <<accounts[CheckedAccount].organization_id, CheckedUser>>
ExplicitSuffices ==
    /\ <<CheckedAccount, CheckedUser>> \in DOMAIN perms
    /\ Rank(PermissionOrder, perms[<<CheckedAccount, CheckedUser>>].permission) >= Rank(PermissionOrder, resp.arg)
DefaultSuffices ==
    Rank(PermissionOrder, accounts[CheckedAccount].default_permission) >= Rank(PermissionOrder, resp.arg)

OwnerAdminBypass ==
    (/\ CheckedOrgAccount
     /\ CheckedMemberKey \in DOMAIN members
     /\ members[CheckedMemberKey].role \in {"owner", "admin"})
    => resp.result = "granted"

\* an admin asking for full on a view-default account with a view-only explicit row
AdminGrantedFull ==
    /\ CheckedOrgAccount
    /\ CheckedMemberKey \in DOMAIN members
    /\ members[CheckedMemberKey].role = "admin"
    /\ accounts[CheckedAccount].default_permission = "view"
    /\ <<CheckedAccount, CheckedUser>> \in DOMAIN perms
    /\ perms[<<CheckedAccount, CheckedUser>>].permission = "view"
    /\ resp.arg = "full"
    /\ resp.result = "granted"

\* C5: a non-deleted personal account is granted to its user_id and refused
\* (access denied, not NotFound) to everybody else
PersonalAccountOwnerOnly ==
    (/\ resp.op = "check_account_permission"
     /\ CheckedAccount \in DOMAIN accounts
     /\ ~accounts[CheckedAccount].deleted_at
     /\ accounts[CheckedAccount].organization_id = NoOrg)
    => resp.result = (IF accounts[CheckedAccount].user_id = CheckedUser
                      THEN "granted" ELSE "access_denied")

\* another user, owner of an organization and holding a full AccountPermission row, is refused
PersonalAccountRefusesOther ==
    /\ resp.op = "check_account_permission"
    /\ CheckedAccount \in DOMAIN accounts
    /\ ~accounts[CheckedAccount].deleted_at
    /\ accounts[CheckedAccount].organization_id = NoOrg
    /\ accounts[CheckedAccount].user_id # CheckedUser
    /\ <<CheckedAccount, CheckedUser>> \in DOMAIN perms
    /\ perms[<<CheckedAccount, CheckedUser>>].permission = "full"
    /\ <<"o1", CheckedUser>> \in DOMAIN members
    /\ members[<<"o1", CheckedUser>>].role = "owner"
    /\ resp.result = "access_denied"

\* C9: check_org_permission answers NotFound, then not-a-member, then
\* insufficient-role, then the membership; levels follow
\* viewer < member < admin < owner and any other stored role has level 0
OrgPermissionPriority ==
    /\ \A r \in StoredRoles : ROLE_HIERARCHY(r) = Rank(RoleOrder, r)
    /\ resp.op = "check_org_permission" =>
         resp.result =
           (IF resp.obj \notin DOMAIN orgs \/ orgs[resp.obj].deleted_at THEN "not_found"
            ELSE IF <<resp.obj, resp.actor>> \notin DOMAIN members THEN "not_member"
            ELSE IF resp.arg \in Roles
                    /\ Rank(RoleOrder, members[<<resp.obj, resp.actor>>].role)
                         < Rank(RoleOrder, resp.arg)
                 THEN "insufficient_role"
            ELSE "ok")

\* a soft-deleted organization asked about by a user without a membership row
DeletedOrgNotFound ==
    /\ resp.op = "check_org_permission"
    /\ resp.obj \in DOMAIN orgs
    /\ orgs[resp.obj].deleted_at
    /\ <<resp.obj, resp.actor>> \notin DOMAIN members
    /\ resp.result = "not_found"

(***************************************************************************)
(* Requests racing on the same rows.  A request first runs its queries and *)
(* checks against the committed tables (the begin actions) and keeps the   *)
(* rows it changed in its session; db.commit() (commit) flushes them by    *)
(* primary key: an UPDATE that matches no row raises StaleDataError and    *)
(* rolls the transaction back, a DELETE that matches no row only warns,    *)
(* an INSERT that hits a unique constraint raises IntegrityError.  No      *)
(* handler locks a row it has read.                                        *)
(***************************************************************************)
NoWrites == EmptyTable

Session(op, actor, obj, arg, result, member_writes, invitation_write) ==
    [op |-> op, actor |-> actor, obj |-> obj, arg |-> arg,
     status |-> IF result = "ok" THEN "pending" ELSE "refused", result |-> result,
     member_writes |-> IF result = "ok" THEN member_writes ELSE NoWrites,
     invitation_write |-> IF result = "ok" THEN invitation_write ELSE None]

\* the session's dirty attributes: a column set to the value it was loaded with is not flushed
RoleWrite(membersT, key, role) ==
    IF membersT[key].role = role THEN NoWrites
    ELSE [k \in {key} |-> [kind |-> "update", role |-> role]]

Merge(w1, w2) ==
    [k \in DOMAIN w1 \cup DOMAIN w2 |-> IF k \in DOMAIN w2 THEN w2[k] ELSE w1[k]]

begin(r, session) ==
    /\ r \notin DOMAIN reqs
    /\ session.actor \in users
    /\ reqs' = Insert(reqs, r, session)
    /\ UNCHANGED <<schema, users, orgs, members, invitations, accounts, perms, txns, now, resp, issued, audit_logs>>

begin_transfer_ownership(r, actor, o, new_owner) ==
    LET result == transfer_ownership_result(orgs, members, actor, o, new_owner) IN
    begin(r, Session("transfer_ownership", actor, o, new_owner, result,
                     IF result = "ok"
                     THEN Merge(RoleWrite(members, <<o, actor>>, "admin"),
                                RoleWrite(members, <<o, new_owner>>, "owner"))
                     ELSE NoWrites,
                     None))

begin_update_member_role(r, actor, o, target, new_role) ==
    LET result == update_member_role_result(orgs, members, actor, o, target, new_role) IN
    begin(r, Session("update_member_role", actor, o, target, result,
                     IF result = "ok" THEN RoleWrite(members, <<o, target>>, new_role)
                     ELSE NoWrites,
                     None))

begin_remove_member(r, actor, o, target) ==
    LET result == remove_member_result(orgs, members, actor, o, target) IN
    begin(r, Session("remove_member", actor, o, target, result,
                     [k \in {<<o, target>>} |-> [kind |-> "delete", role |-> None]],
                     None))

begin_accept_invitation(r, u, t) ==
    LET result == accept_invitation_result(invitations, members, now, u, t) IN
    \E wrapped_org_key \in AcceptKeys :
    begin(r, Session("accept_invitation", u, t, wrapped_org_key, result,
                     IF result = "ok"
                     THEN [k \in {<<invitations[t].organization_id, u>>} |->
                             [kind |-> "insert", role |-> invitations[t].role,
                              wrapped_org_key |-> wrapped_org_key]]
                     ELSE NoWrites,
                     "accepted_at"))

begin_reject_invitation(r, u, t) ==
    LET result == reject_invitation_result(invitations, now, u, t) IN
    begin(r, Session("reject_invitation", u, t, None, result, NoWrites, "rejected_at"))
\* variant: the accepted_at test is left out
cancel_invitation_result_any_state(orgsT, membersT, invT, actor, o, t) ==
    IF check_org_admin(orgsT, membersT, actor, o) # "ok"
    THEN check_org_admin(orgsT, membersT, actor, o)
    ELSE IF t \notin DOMAIN invT \/ invT[t].organization_id # o THEN "not_found"
    ELSE "ok"

\* routers/invitations.py cancel_invitation
cancel_invitation_result(orgsT, membersT, invT, actor, o, t) ==
    IF check_org_admin(orgsT, membersT, actor, o) # "ok"
    THEN check_org_admin(orgsT, membersT, actor, o)
    ELSE IF t \notin DOMAIN invT \/ invT[t].organization_id # o THEN "not_found"
    ELSE IF invT[t].accepted_at THEN "already_accepted"
    ELSE "ok"

begin_cancel_invitation(r, actor, o, t) ==
    LET result == cancel_invitation_result(orgs, members, invitations, actor, o, t) IN
    begin(r, Session("cancel_invitation", actor, t, o, result, NoWrites, "delete"))

\* what the flush of a session's unit of work does to the committed tables
FlushResult(membersT, invT, session) ==
    IF \E k \in DOMAIN session.member_writes :
          session.member_writes[k].kind = "update" /\ k \notin DOMAIN membersT
    THEN "stale_data"
    ELSE IF session.invitation_write \in {"accepted_at", "rejected_at"}
            /\ session.obj \notin DOMAIN invT
         THEN "stale_data"
    ELSE IF \E k \in DOMAIN session.member_writes :
               /\ session.member_writes[k].kind = "insert"
               /\ k \in DOMAIN membersT
               /\ schema = "alembic"
         THEN "integrity_error"
    ELSE IF session.invitation_write = "insert"
            /\ InvitationInsertConflict(invT, session.new_invitation.organization_id,
                                        session.new_invitation.email)
         THEN "integrity_error"
    ELSE "ok"

FlushMembers(membersT, writes) ==
    LET deleted == {k \in DOMAIN writes : writes[k].kind = "delete"}
        kept == (DOMAIN membersT \cup {k \in DOMAIN writes : writes[k].kind = "insert"}) \ deleted
    IN [k \in kept |->
          IF k \notin DOMAIN writes THEN membersT[k]
          ELSE IF writes[k].kind = "update" THEN [membersT[k] EXCEPT !.role = writes[k].role]
          ELSE IF k \in DOMAIN membersT
               THEN [membersT[k] EXCEPT !.copies = membersT[k].copies + 1]
          ELSE [role |-> writes[k].role, copies |-> 1,
                wrapped_org_key |-> writes[k].wrapped_org_key]]

FlushInvitations(invT, session) ==
    IF session.invitation_write = "delete" THEN Delete(invT, session.obj)
    ELSE IF session.invitation_write = "accepted_at"
         THEN [invT EXCEPT ![session.obj].accepted_at = TRUE]
    ELSE IF session.invitation_write = "rejected_at"
         THEN [invT EXCEPT ![session.obj].rejected_at = TRUE]
    ELSE IF session.invitation_write = "insert"
         THEN Insert(invT, session.obj, session.new_invitation)
    ELSE invT

commit(r) ==
    /\ r \in DOMAIN reqs
    /\ reqs[r].status = "pending"
    /\ LET result == FlushResult(members, invitations, reqs[r]) IN
        /\ reqs' = [reqs EXCEPT ![r].status = IF result = "ok" THEN "committed" ELSE "rolled_back",
                                ![r].result = result]
        /\ IF result = "ok"
           THEN /\ members' = FlushMembers(members, reqs[r].member_writes)
                /\ invitations' = FlushInvitations(invitations, reqs[r])
                /\ resp' = Response(reqs[r].op, reqs[r].actor, reqs[r].obj, reqs[r].arg, "ok")
           ELSE UNCHANGED <<members, invitations, resp>>
    /\ UNCHANGED <<schema, users, orgs, accounts, perms, txns, now, issued, audit_logs>>

(***************************************************************************)
(* SpecMemberRace: two membership requests in flight on organization o1,   *)
(* whose owner u1 has been joined by u2 and u3 (three registrations, two   *)
(* accepted invitations)                                                   *)
(***************************************************************************)
InitMemberRace ==
    /\ schema = "alembic"
    /\ users = {"u1", "u2", "u3"}
    /\ orgs = [o \in {"o1", "o2", "o3"} |-> [deleted_at |-> FALSE]]
    /\ \E r2 \in {"admin", "member"}, r3 \in {"admin", "member"} :
        /\ members =
             [k \in {<<"o1", "u1">>, <<"o2", "u2">>, <<"o3", "u3">>,
                     <<"o1", "u2">>, <<"o1", "u3">>} |->
                [role |-> IF k = <<"o1", "u2">> THEN r2
                          ELSE IF k = <<"o1", "u3">> THEN r3 ELSE "owner",
                 copies |-> 1, wrapped_org_key |-> "k1"]]
        /\ invitations =
             [t \in {"t1", "t2"} |->
                [organization_id |-> "o1",
                 email |-> IF t = "t1" THEN "e2" ELSE "e3",
                 role |-> IF t = "t1" THEN r2 ELSE r3,
                 expires_at |-> InvitationPeriods,
                 accepted_at |-> TRUE, rejected_at |-> FALSE, wrapped_org_key |-> "k1"]]
    /\ accounts = EmptyTable
    /\ perms = EmptyTable
    /\ txns = EmptyTable
    /\ now = 0
    /\ resp = Response("init", None, None, None, "ok")
    /\ reqs = EmptyTable
    /\ issued = DOMAIN invitations
    /\ audit_logs = NotObserved

NextMemberRace ==
    \/ \E r \in ReqIds, u \in Users, v \in Users : begin_transfer_ownership(r, u, "o1", v)
    \/ \E r \in ReqIds, u \in Users, v \in Users, role \in Roles :
          begin_update_member_role(r, u, "o1", v, role)
    \/ \E r \in ReqIds, u \in Users, v \in Users : begin_remove_member(r, u, "o1", v)
    \/ \E r \in ReqIds : commit(r)

SpecMemberRace == InitMemberRace /\ [][NextMemberRace]_vars

\* no request in flight is an owner changing their own role (the sequential case of C1)
NoSelfDemotion ==
    \A r \in DOMAIN reqs : ~(reqs[r].op = "update_member_role" /\ reqs[r].actor = reqs[r].arg)

\* C2: under any interleaving of transfer_ownership, update_member_role and
\* remove_member requests every committed state has exactly one owner
SingleOwnerUnderRaces ==
    NoSelfDemotion => \A o \in DOMAIN orgs : Cardinality(Owners(members, o)) = 1

(***************************************************************************)
(* SpecInvitationRace: two requests in flight on the pending invitation t1 *)
(* that owner u1 of o1 sent to the registered user u2                      *)
(***************************************************************************)
InitInvitationRace ==
    /\ schema \in {"alembic", "metadata"}
    /\ users = {"u1", "u2"}
    /\ orgs = [o \in {"o1", "o2"} |-> [deleted_at |-> FALSE]]
    /\ members = [k \in {<<"o1", "u1">>, <<"o2", "u2">>} |-> [role |-> "owner", copies |-> 1, wrapped_org_key |-> "k1"]]
    /\ \E role \in Roles \ {"owner"} :
          invitations = [t \in {"t1"} |->
                           [organization_id |-> "o1", email |-> "e2", role |-> role,
                            expires_at |-> InvitationPeriods,
                            accepted_at |-> FALSE, rejected_at |-> FALSE, wrapped_org_key |-> "k1"]]
    /\ accounts = EmptyTable
    /\ perms = EmptyTable
    /\ txns = EmptyTable
    /\ now = 0
    /\ resp = Response("init", None, None, None, "ok")
    /\ reqs = EmptyTable
    /\ issued = DOMAIN invitations
    /\ audit_logs = NotObserved

NextInvitationRace ==
    \/ \E r \in ReqIds, u \in Users : begin_accept_invitation(r, u, "t1")
    \/ \E r \in ReqIds, u \in Users : begin_reject_invitation(r, u, "t1")
    \/ \E r \in ReqIds, u \in Users : begin_cancel_invitation(r, u, "o1", "t1")
    \/ \E r \in ReqIds : commit(r)
    \/ tick

SpecInvitationRace == InitInvitationRace /\ [][NextInvitationRace]_vars

\* C10: under any interleaving of accept, reject and cancel requests for the
\* same token no invitation has both accepted_at and rejected_at set
NeverAcceptedAndRejected ==
    \A t \in DOMAIN invitations :
        ~(invitations[t].accepted_at /\ invitations[t].rejected_at)

(***************************************************************************)
(* SpecInvitations: the invitation lifecycle, one transaction per request. *)
(* u1 owns o1 and has already sent invitation t2 at time 0; u2 is          *)
(* registered (owner of o2); e3 is the address of nobody registered.       *)
(***************************************************************************)
\* routers/invitations.py cancel_invitation
cancel_invitation(actor, o, t) ==
    /\ actor \in users
    /\ cancel_invitation_result(orgs, members, invitations, actor, o, t) = "ok"
    /\ invitations' = Delete(invitations, t)
    /\ audited_response("cancel_invitation", actor, t, o, "invitation_cancelled", o)
    /\ UNCHANGED <<schema, users, orgs, members, accounts, perms, txns, now, reqs, issued>>

InitInvitations ==
    /\ schema \in {"alembic", "metadata"}
    /\ users = {"u1", "u2"}
    /\ orgs = [o \in {"o1", "o2"} |-> [deleted_at |-> FALSE]]
    /\ members = [k \in {<<"o1", "u1">>, <<"o2", "u2">>} |-> [role |-> "owner", copies |-> 1, wrapped_org_key |-> "k1"]]
    /\ \E email \in {"e2", "e3"}, role \in Roles \ {"owner"} :
          invitations = [t \in {"t2"} |->
                           [organization_id |-> "o1", email |-> email, role |-> role,
                            expires_at |-> InvitationPeriods,
                            accepted_at |-> FALSE, rejected_at |-> FALSE, wrapped_org_key |-> "k1"]]
    /\ accounts = EmptyTable
    /\ perms = EmptyTable
    /\ txns = EmptyTable
    /\ now = 0
    /\ resp = Response("create_invitation", "u1", "t2", invitations["t2"].role, "ok")
    /\ reqs = EmptyTable
    /\ issued = {"t2"}
    /\ audit_logs = NotObserved

NextInvitations ==
    \/ \E u \in Users, o \in Orgs, e \in Emails, r \in Roles : create_invitation(u, o, e, r)
    \/ \E u \in Users, t \in Tokens : accept_invitation(u, t)
    \/ \E u \in Users, t \in Tokens : reject_invitation(u, t)
    \/ \E u \in Users, o \in Orgs, t \in Tokens : cancel_invitation(u, o, t)
    \/ \E u \in Users, o \in Orgs, v \in Users : remove_member(u, o, v)
    \/ tick

SpecInvitations == InitInvitations /\ [][NextInvitations]_vars

\* a token whose invitation is accepted, rejected or deleted
Consumed(invT, t) ==
    t \notin DOMAIN invT \/ invT[t].accepted_at \/ invT[t].rejected_at

\* C11: accepted and rejected are absorbing: once accepted_at or rejected_at is
\* set, verify_invitation_token fails for the token in every later state and no
\* later accept or reject on it creates a membership or changes the invitation
AcceptedRejectedAbsorbing ==
    [][\A t \in issued :
          Consumed(invitations, t) =>
             /\ Consumed(invitations', t)
             /\ verify_invitation_token(invitations', t, now') # "ok"
             /\ (t \in DOMAIN invitations /\ t \in DOMAIN invitations'
                   => invitations'[t] = invitations[t])
             /\ (members' # members \/ invitations' # invitations
                   => ~(resp'.op \in {"accept_invitation", "reject_invitation"}
                        /\ resp'.obj = t))]_vars

\* a rejected invitation that its invitee tries to accept at a later time
RejectedThenRetried ==
    \E t \in DOMAIN invitations, u \in users :
        /\ invitations[t].rejected_at
        /\ invitations[t].email = EmailOf(u)
        /\ now > 0
        /\ <<invitations[t].organization_id, u>> \notin DOMAIN members
        /\ accept_invitation_result(invitations, members, now, u, t) = "already_rejected"

(***************************************************************************)
(* SpecToken: verify_invitation_token applied to every invitation row the  *)
(* columns admit, at every clock value                                     *)
(***************************************************************************)
InitToken ==
    /\ schema \in {"alembic", "metadata"}
    /\ users = {"u1", "u2"}
    /\ orgs = [o \in {"o1", "o2"} |-> [deleted_at |-> FALSE]]
    /\ members = [k \in {<<"o1", "u1">>, <<"o2", "u2">>} |-> [role |-> "owner", copies |-> 1, wrapped_org_key |-> "k1"]]
    /\ invitations \in
         {EmptyTable} \cup
         {[t \in {"t1"} |->
             [organization_id |-> "o1", email |-> "e3", role |-> role,
              expires_at |-> expires_at, accepted_at |-> accepted_at,
              rejected_at |-> rejected_at, wrapped_org_key |-> "k1"]] :
            role \in Roles \ {"owner"}, expires_at \in 0..(MaxTime + InvitationPeriods),
            accepted_at \in BOOLEAN, rejected_at \in BOOLEAN}
    /\ accounts = EmptyTable
    /\ perms = EmptyTable
    /\ txns = EmptyTable
    /\ now \in 0..MaxTime
    /\ resp = Response("init", None, None, None, "ok")
    /\ reqs = EmptyTable
    /\ issued = DOMAIN invitations
    /\ audit_logs = NotObserved

apply_verify_invitation_token(t) ==
    /\ resp' = Response("verify_invitation_token", None, t, None,
                        verify_invitation_token(invitations, t, now))
    /\ UNCHANGED <<schema, users, orgs, members, invitations, accounts, perms, txns, now, reqs, issued, audit_logs>>

NextToken == \E t \in Tokens : apply_verify_invitation_token(t)

SpecToken == InitToken /\ [][NextToken]_vars

\* C12: verify_invitation_token reports not-found, else already-accepted, else
\* already-rejected, else expired (expires_at in the past), else succeeds
VerifyTokenPriority ==
    resp.op = "verify_invitation_token" =>
        LET t == resp.obj
            found == t \in DOMAIN invitations
        IN /\ ~found => resp.result = "not_found"
           /\ found /\ invitations[t].accepted_at => resp.result = "already_accepted"
           /\ found /\ ~invitations[t].accepted_at /\ invitations[t].rejected_at
                => resp.result = "already_rejected"
           /\ found /\ ~invitations[t].accepted_at /\ ~invitations[t].rejected_at
                => resp.result = (IF invitations[t].expires_at < now THEN "expired" ELSE "ok")

\* an accepted invitation whose expiry has passed is reported as already accepted
AcceptedPastExpiry ==
    /\ resp.op = "verify_invitation_token"
    /\ resp.obj \in DOMAIN invitations
    /\ invitations[resp.obj].accepted_at
    /\ invitations[resp.obj].expires_at < now
    /\ resp.result = "already_accepted"

\* C13: of two concurrent accept_invitation calls for the same token by the
\* invitee exactly one succeeds, the other fails with already-a-member or
\* already-accepted, and exactly one membership row for (organization, user) results
ConcurrentAcceptOneWins ==
    (/\ DOMAIN reqs = ReqIds
     /\ \A r \in ReqIds : /\ reqs[r].op = "accept_invitation"
                          /\ reqs[r].actor = "u2"
                          /\ reqs[r].status # "pending"
     /\ \E r \in ReqIds : reqs[r].status = "committed")
    => /\ Cardinality({r \in ReqIds : reqs[r].status = "committed"}) = 1
       /\ \A r \in ReqIds : reqs[r].status # "committed"
                              => reqs[r].result \in {"already_member", "already_accepted"}
       /\ <<"o1", "u2">> \in DOMAIN members
       /\ members[<<"o1", "u2">>].copies = 1

\* C14: accept_invitation and reject_invitation succeed only for the user whose
\* email equals the invitation's email; any other user is refused as forbidden
\* and the invitation and the memberships stay as they were
EmailBinding ==
    [][/\ \A u \in users, t \in DOMAIN invitations :
            (verify_invitation_token(invitations, t, now) = "ok"
             /\ invitations[t].email # EmailOf(u))
            => /\ accept_invitation_result(invitations, members, now, u, t) = "forbidden"
               /\ reject_invitation_result(invitations, now, u, t) = "forbidden"
       /\ (resp'.op \in {"accept_invitation", "reject_invitation"}
           /\ (members' # members \/ invitations' # invitations))
          => invitations[resp'.obj].email = EmailOf(resp'.actor)]_vars

\* a newly created pending invitation that a registered user other than the invitee could try
PendingForSomeoneElse ==
    /\ resp.op = "create_invitation"
    /\ resp.obj = "t1"
    /\ "t1" \in DOMAIN invitations
    /\ \E u \in users :
          /\ invitations["t1"].email # EmailOf(u)
          /\ <<invitations["t1"].organization_id, u>> \notin DOMAIN members
          /\ accept_invitation_result(invitations, members, now, u, "t1") = "forbidden"

(***************************************************************************)
(* SpecCreateRace: two create_invitation requests in flight on o1, whose   *)
(* owner u1 has made u2 an admin; nobody has been invited yet              *)
(***************************************************************************)
\* routers/invitations.py create_invitation up to db.commit(): the checks read the
\* committed rows, the unique constraint is only met by the INSERT at commit
begin_create_invitation(r, actor, o, email, role) ==
    LET checked == create_invitation_result(actor, o, email, role)
        result == IF checked = "integrity_error" THEN "ok" ELSE checked
    IN /\ r \notin DOMAIN reqs
       /\ actor \in users
       /\ \E t \in Tokens \ issued, wrapped_org_key \in EnrolKeys :
            /\ t = CHOOSE x \in Tokens \ issued : TRUE
            /\ issued' = IF result = "ok" THEN issued \cup {t} ELSE issued
            /\ reqs' = Insert(reqs, r,
                 Session("create_invitation", actor, IF result = "ok" THEN t ELSE None,
                         role, result, NoWrites, "insert")
                 @@ [new_invitation |->
                       [organization_id |-> o, email |-> email, role |-> role,
                        expires_at |-> now + InvitationPeriods,
                        accepted_at |-> FALSE, rejected_at |-> FALSE,
                        wrapped_org_key |-> wrapped_org_key]])
       /\ UNCHANGED <<schema, users, orgs, members, invitations, accounts, perms, txns, now, resp, audit_logs>>

InitCreateRace ==
    /\ schema \in {"alembic", "metadata"}
    /\ users = {"u1", "u2"}
    /\ orgs = [o \in {"o1", "o2"} |-> [deleted_at |-> FALSE]]
    /\ members = [k \in {<<"o1", "u1">>, <<"o2", "u2">>, <<"o1", "u2">>} |->
                    [role |-> IF k = <<"o1", "u2">> THEN "admin" ELSE "owner", copies |-> 1, wrapped_org_key |-> "k1"]]
    /\ invitations = EmptyTable
    /\ accounts = EmptyTable
    /\ perms = EmptyTable
    /\ txns = EmptyTable
    /\ now = 0
    /\ resp = Response("init", None, None, None, "ok")
    /\ reqs = EmptyTable
    /\ issued = {}
    /\ audit_logs = NotObserved

NextCreateRace ==
    \/ \E r \in ReqIds, u \in Users, e \in Emails, role \in Roles :
          begin_create_invitation(r, u, "o1", e, role)
    \/ \E r \in ReqIds : commit(r)
    \/ tick

SpecCreateRace == InitCreateRace /\ [][NextCreateRace]_vars

IsActive(invT, t, clock) ==
    ~invT[t].accepted_at /\ ~invT[t].rejected_at /\ invT[t].expires_at > clock

\* C15: at most one invitation per (organization, email) is active, also under
\* concurrent create_invitation requests for the same recipient
AtMostOneActiveInvitation ==
    \A t \in DOMAIN invitations, t2 \in DOMAIN invitations :
        (/\ t # t2
         /\ invitations[t].organization_id = invitations[t2].organization_id
         /\ invitations[t].email = invitations[t2].email)
        => ~(IsActive(invitations, t, now) /\ IsActive(invitations, t2, now))

\* C16: no invitation ever proposes the role owner and accept_invitation never
\* creates a membership with role owner
NoOwnerByInvitation ==
    [][/\ \A t \in DOMAIN invitations' : invitations'[t].role \in {"admin", "member", "viewer"}
       /\ (resp'.op = "accept_invitation" /\ members' # members)
          => \A k \in DOMAIN members' \ DOMAIN members : members'[k].role # "owner"]_vars

\* an invitation created during the run has been accepted and its membership exists
InvitedMemberJoined ==
    /\ resp.op = "accept_invitation"
    /\ resp.obj = "t1"
    /\ "t1" \in DOMAIN invitations
    /\ invitations["t1"].accepted_at
    /\ <<invitations["t1"].organization_id, resp.actor>> \in DOMAIN members
    /\ members[<<invitations["t1"].organization_id, resp.actor>>].role = invitations["t1"].role

\* C17: transfer_ownership succeeds only when the caller is the current owner
\* and the target is another existing member; its one commit makes the caller
\* admin and the target owner and changes no other membership
TransferOwnershipEffect ==
    [][/\ \A a \in users, o \in DOMAIN orgs, n \in Users :
            transfer_ownership_result(orgs, members, a, o, n) = "ok"
            <=> /\ ~orgs[o].deleted_at
                /\ <<o, a>> \in DOMAIN members
                /\ members[<<o, a>>].role = "owner"
                /\ <<o, n>> \in DOMAIN members
                /\ n # a
       /\ (resp'.op = "transfer_ownership" /\ members' # members)
          => LET a == resp'.actor
                 o == resp'.obj
                 n == resp'.arg
             IN /\ <<o, a>> \in DOMAIN members
                /\ members[<<o, a>>].role = "owner"
                /\ <<o, n>> \in DOMAIN members
                /\ n # a
                /\ DOMAIN members' = DOMAIN members
                /\ members'[<<o, a>>].role = "admin"
                /\ members'[<<o, n>>].role = "owner"
                /\ \A k \in DOMAIN members \ {<<o, a>>, <<o, n>>} : members'[k] = members[k]]_vars

\* ownership has just moved from the caller to another member
OwnershipMoved ==
    /\ resp.op = "transfer_ownership"
    /\ members[<<resp.obj, resp.actor>>].role = "admin"
    /\ members[<<resp.obj, resp.arg>>].role = "owner"
    /\ Owners(members, resp.obj) = {resp.arg}

\* C18: remove_member never deletes a membership whose role is owner: an admin
\* or the owner themself is refused with cannot-remove-owner and the
\* memberships stay as they were
OwnerNeverRemoved ==
    [][/\ \A a \in users, o \in DOMAIN orgs, v \in Users :
            (/\ ~orgs[o].deleted_at
             /\ <<o, a>> \in DOMAIN members
             /\ members[<<o, a>>].role \in {"owner", "admin"}
             /\ <<o, v>> \in DOMAIN members
             /\ members[<<o, v>>].role = "owner")
            => remove_member_result(orgs, members, a, o, v) = "cannot_remove_owner"
       /\ (resp'.op = "remove_member" /\ members' # members)
          => /\ members[<<resp'.obj, resp'.arg>>].role # "owner"
             /\ members' = Delete(members, <<resp'.obj, resp'.arg>>)]_vars

\* after A transferred ownership to B, A (now admin) is refused when removing B
FormerOwnerCannotRemoveNewOwner ==
    /\ resp.op = "transfer_ownership"
    /\ members[<<resp.obj, resp.actor>>].role = "admin"
    /\ members[<<resp.obj, resp.arg>>].role = "owner"
    /\ remove_member_result(orgs, members, resp.actor, resp.obj, resp.arg) = "cannot_remove_owner"

\* C19: update_member_role never sets a role to owner, and an actor who is not
\* an owner never changes the role of a member who is owner
RoleUpdateKeepsOwnership ==
    [][(resp'.op = "update_member_role" /\ members' # members)
          => LET a == resp'.actor
                 o == resp'.obj
                 v == resp'.arg
             IN /\ DOMAIN members' = DOMAIN members
                /\ members'[<<o, v>>].role # "owner"
                /\ members[<<o, a>>].role # "owner" => members[<<o, v>>].role # "owner"
                /\ \A k \in DOMAIN members \ {<<o, v>>} : members'[k] = members[k]]_vars

\* an owner has made another member admin, and that admin is refused when
\* changing the owner's role
AdminCannotDemoteOwner ==
    /\ resp.op = "update_member_role"
    /\ resp.actor # resp.arg
    /\ members[<<resp.obj, resp.actor>>].role = "owner"
    /\ members[<<resp.obj, resp.arg>>].role = "admin"
    /\ update_member_role_result(orgs, members, resp.arg, resp.obj, resp.actor, "member")
         = "forbidden"

\* C20: the sole owner calling update_member_role on their own membership with
\* role admin, member or viewer is refused and every role stays as it was
SoleOwnerDemotionRefused ==
    [][~(/\ resp'.op = "update_member_role"
         /\ resp'.actor = resp'.arg
         /\ <<resp'.obj, resp'.actor>> \in DOMAIN members
         /\ Owners(members, resp'.obj) = {resp'.actor}
         /\ members' # members)]_vars

(***************************************************************************)
(* Key rotation (routers/organizations.py rotate_organization_keys)        *)
(***************************************************************************)
MaxMemberKeys == 2
StoredAccounts == {"a1", "a2"}
\* variant: admins may rotate as well
rotate_organization_keys_result_admin(orgsT, membersT, actor, o) ==
    IF check_org_admin(orgsT, membersT, actor, o) # "ok"
    THEN check_org_admin(orgsT, membersT, actor, o)
    ELSE IF ~OrgActive(orgsT, o) THEN "not_found"
    ELSE "ok"

rotate_organization_keys_result(orgsT, membersT, actor, o) ==
    IF check_org_owner(orgsT, membersT, actor, o) # "ok"
    THEN check_org_owner(orgsT, membersT, actor, o)
    ELSE IF ~OrgActive(orgsT, o) THEN "not_found"
    ELSE "ok"

\* the loop over rotation_data.member_keys, a list: every entry whose user has a
\* membership in o sets that row's wrapped_org_key and adds one to members_updated
RECURSIVE rotate_member_keys(_, _, _)
rotate_member_keys(membersT, o, member_keys) ==
    IF member_keys = <<>> THEN [members |-> membersT, members_updated |-> 0]
    ELSE LET done == rotate_member_keys(membersT, o, SubSeq(member_keys, 1, Len(member_keys) - 1))
             member_key_data == member_keys[Len(member_keys)]
             key == <<o, member_key_data.user_id>>
         IN IF key \in DOMAIN done.members
            THEN [members |-> [done.members EXCEPT
                                 ![key].wrapped_org_key = member_key_data.wrapped_org_key],
                  members_updated |-> done.members_updated + 1]
            ELSE done

\* the loop over rotation_data.account_deks, a dict: one entry per account id
rotate_account_deks(accountsT, o, account_deks) ==
    LET matched == {a \in DOMAIN account_deks \cap DOMAIN accountsT :
                       /\ accountsT[a].organization_id = o
                       /\ ~accountsT[a].deleted_at}
    IN [accounts |-> [a \in DOMAIN accountsT |->
                        IF a \in matched
                        THEN [accountsT[a] EXCEPT !.encrypted_dek = account_deks[a]]
                        ELSE accountsT[a]],
        accounts_updated |-> Cardinality(matched)]

\* db.commit() at line 751 writes every update at once; log_audit follows with a
\* commit of its own, both inside the try whose except rolls back and raises 500
rotate_organization_keys(actor, o, member_keys, account_deks) ==
    /\ actor \in users
    /\ rotate_organization_keys_result(orgs, members, actor, o) = "ok"
    /\ LET rotated_members == rotate_member_keys(members, o, member_keys)
           rotated_accounts == rotate_account_deks(accounts, o, account_deks)
           rotation_data == [member_keys |-> member_keys, account_deks |-> account_deks]
           failed == [status |-> "rotation_failed", members_updated |-> 0, accounts_updated |-> 0]
       IN \/ /\ members' = rotated_members.members
             /\ accounts' = rotated_accounts.accounts
             /\ log_audit("keys_rotated", o, actor)
             /\ resp' = Response("rotate_organization_keys", actor, o, rotation_data,
                                 [status |-> "ok",
                                  members_updated |-> rotated_members.members_updated,
                                  accounts_updated |-> rotated_accounts.accounts_updated])
          \/ /\ members' = rotated_members.members
             /\ accounts' = rotated_accounts.accounts
             /\ log_audit_fault
             /\ resp' = Response("rotate_organization_keys", actor, o, rotation_data, failed)
          \/ /\ storage_fault
             /\ UNCHANGED <<members, accounts, audit_logs>>
             /\ resp' = Response("rotate_organization_keys", actor, o, rotation_data, failed)
    /\ UNCHANGED <<schema, users, orgs, invitations, perms, txns, now, reqs, issued>>

(***************************************************************************)
(* SpecRotation: rotations of organization o1 (owner u1, u2 possibly a     *)
(* member) next to organization o2 of u3; account a1 belongs to o1 and may *)
(* be soft-deleted, a2 belongs to o1, to o2 or to nobody (personal), a3    *)
(* does not exist                                                          *)
(***************************************************************************)
MemberKeyEntries ==
    [user_id : {"u2"}, wrapped_org_key : {"k2", "k3"}]
        \cup [user_id : {"u3"}, wrapped_org_key : {"k3"}]

MemberKeyLists == UNION {[1..n -> MemberKeyEntries] : n \in 0..MaxMemberKeys}

AccountDekDicts == UNION {[ids -> {"d2"}] : ids \in SUBSET (StoredAccounts \cup {"a3"})}

InitRotation ==
    /\ schema = "alembic"
    /\ users = {"u1", "u2", "u3"}
    /\ orgs = [o \in {"o1", "o2"} |-> [deleted_at |-> FALSE]]
    /\ \E joined \in {NoRole, "admin"} :
         members = [k \in {<<"o1", "u1">>, <<"o2", "u3">>}
                           \cup (IF joined = NoRole THEN {} ELSE {<<"o1", "u2">>})
                      |-> [role |-> IF k = <<"o1", "u2">> THEN joined ELSE "owner",
                           copies |-> 1, wrapped_org_key |-> "k1"]]
    /\ invitations = EmptyTable
    /\ \E d1 \in BOOLEAN, o2 \in {"o1", "o2", NoOrg} :
         accounts = [a \in StoredAccounts |->
                       [user_id |-> "u1",
                        organization_id |-> IF a = "a1" THEN "o1" ELSE o2,
                        default_permission |-> "view",
                        deleted_at |-> IF a = "a1" THEN d1 ELSE FALSE,
                        encrypted_data |-> "b1", encrypted_dek |-> "d1", name |-> None]]
    /\ perms = EmptyTable
    /\ txns = EmptyTable
    /\ now = 0
    /\ resp = Response("init", None, None, None, "ok")
    /\ reqs = EmptyTable
    /\ issued = DOMAIN invitations
    /\ audit_logs = NotObserved

NextRotation ==
    \E actor \in Users, o \in {"o1"}, member_keys \in MemberKeyLists,
       account_deks \in AccountDekDicts :
        rotate_organization_keys(actor, o, member_keys, account_deks)

SpecRotation == InitRotation /\ [][NextRotation]_vars

\* C21: a rotation by the owner overwrites wrapped_org_key of exactly the supplied
\* users who are members of the organization and encrypted_dek of exactly the
\* supplied accounts that belong to it and are not soft-deleted, skips the other
\* entries, reports as members_updated and accounts_updated the numbers of rows
\* overwritten, and changes nothing else
RotationFrameEffect ==
    [][resp'.op = "rotate_organization_keys" =>
        LET o == resp'.obj
            rotation_data == resp'.arg
            supplied == {rotation_data.member_keys[i].user_id :
                            i \in DOMAIN rotation_data.member_keys}
            hit_members == {k \in DOMAIN members : k[1] = o /\ k[2] \in supplied}
            hit_accounts == {a \in DOMAIN accounts \cap DOMAIN rotation_data.account_deks :
                                accounts[a].organization_id = o /\ ~accounts[a].deleted_at}
        IN /\ <<o, resp'.actor>> \in DOMAIN members
           /\ members[<<o, resp'.actor>>].role = "owner"
           /\ DOMAIN members' = DOMAIN members
           /\ \A k \in DOMAIN members :
                IF k \in hit_members
                THEN /\ members'[k].role = members[k].role
                     /\ members'[k].copies = members[k].copies
                     /\ \E i \in DOMAIN rotation_data.member_keys :
                          /\ rotation_data.member_keys[i].user_id = k[2]
                          /\ members'[k].wrapped_org_key =
                               rotation_data.member_keys[i].wrapped_org_key
                ELSE members'[k] = members[k]
           /\ DOMAIN accounts' = DOMAIN accounts
           /\ \A a \in DOMAIN accounts :
                accounts'[a] = IF a \in hit_accounts
                               THEN [accounts[a] EXCEPT
                                       !.encrypted_dek = rotation_data.account_deks[a]]
                               ELSE accounts[a]
           /\ resp'.result.status = "ok"
           /\ resp'.result.members_updated = Cardinality(hit_members)
           /\ resp'.result.accounts_updated = Cardinality(hit_accounts)
           /\ UNCHANGED <<users, orgs, invitations, perms, txns>>]_vars

\* the same statement, with members_updated counting the supplied entries that
\* matched a membership rather than the rows
RotationFrameEffectPerEntry ==
    [][resp'.op = "rotate_organization_keys" =>
        LET o == resp'.obj
            rotation_data == resp'.arg
            supplied == {rotation_data.member_keys[i].user_id :
                            i \in DOMAIN rotation_data.member_keys}
            hit_members == {k \in DOMAIN members : k[1] = o /\ k[2] \in supplied}
            hit_entries == {i \in DOMAIN rotation_data.member_keys :
                               <<o, rotation_data.member_keys[i].user_id>> \in DOMAIN members}
            hit_accounts == {a \in DOMAIN accounts \cap DOMAIN rotation_data.account_deks :
                                accounts[a].organization_id = o /\ ~accounts[a].deleted_at}
        IN /\ <<o, resp'.actor>> \in DOMAIN members
           /\ members[<<o, resp'.actor>>].role = "owner"
           /\ DOMAIN members' = DOMAIN members
           /\ \A k \in DOMAIN members :
                IF k \in hit_members
                THEN /\ members'[k].role = members[k].role
                     /\ members'[k].copies = members[k].copies
                     /\ \E i \in DOMAIN rotation_data.member_keys :
                          /\ rotation_data.member_keys[i].user_id = k[2]
                          /\ members'[k].wrapped_org_key =
                               rotation_data.member_keys[i].wrapped_org_key
                ELSE members'[k] = members[k]
           /\ DOMAIN accounts' = DOMAIN accounts
           /\ \A a \in DOMAIN accounts :
                accounts'[a] = IF a \in hit_accounts
                               THEN [accounts[a] EXCEPT
                                       !.encrypted_dek = rotation_data.account_deks[a]]
                               ELSE accounts[a]
           /\ resp'.result.status = "ok"
           /\ resp'.result.members_updated = Cardinality(hit_entries)
           /\ resp'.result.accounts_updated = Cardinality(hit_accounts)
           /\ UNCHANGED <<users, orgs, invitations, perms, txns>>]_vars

(***************************************************************************)
(* SpecAudit: the audited requests with the audit_logs table observed and  *)
(* storage faults on its writes.  Organization o1 has owner u1 and admin   *)
(* u3 and holds account a1; o3 is the organization u3 registered with; u2  *)
(* has yet to register.  The table is followed up to MaxAudit rows.        *)
(***************************************************************************)
InitAudit ==
    /\ schema = "alembic"
    /\ users = {"u1", "u3"}
    /\ orgs = [o \in {"o1", "o3"} |-> [deleted_at |-> FALSE]]
    /\ members = [k \in {<<"o1", "u1">>, <<"o1", "u3">>, <<"o3", "u3">>} |->
                    [role |-> IF k = <<"o1", "u3">> THEN "admin" ELSE "owner",
                     copies |-> 1, wrapped_org_key |-> "k1"]]
    /\ invitations = EmptyTable
    /\ accounts = [a \in {"a1"} |->
                     [user_id |-> "u1", organization_id |-> "o1",
                      default_permission |-> "view", deleted_at |-> FALSE,
                      encrypted_data |-> "b1", encrypted_dek |-> "d1", name |-> None]]
    /\ perms = EmptyTable
    /\ txns = EmptyTable
    /\ now = 0
    /\ resp = Response("init", None, None, None, "ok")
    /\ reqs = EmptyTable
    /\ issued = DOMAIN invitations
    /\ audit_logs = {}

NextAudit ==
    \/ \E u \in Registrants : register(u)
    \/ \E u \in {"u1"} : create_organization(u)
    \/ \E u \in Users : create_invitation(u, "o1", "e2", "member")
    \/ \E u \in Users, t \in Tokens : accept_invitation(u, t)
    \/ \E u \in Users, t \in Tokens : reject_invitation(u, t)
    \/ \E u \in Users, t \in Tokens : cancel_invitation(u, "o1", t)
    \/ \E u \in Users, r \in {"admin", "member"} : update_member_role(u, "o1", "u3", r)
    \/ \E u \in Users : remove_member(u, "o1", "u3")
    \/ \E u \in Users : transfer_ownership(u, "o1", "u3")
    \/ \E u \in Users : delete_organization(u, "o1")
    \/ \E u \in Users : set_account_permission(u, "a1", "u3", "edit")
    \/ \E u \in Users : remove_account_permission(u, "a1", "u3")
    \/ \E u \in Users :
         rotate_organization_keys(u, "o1", <<[user_id |-> "u3", wrapped_org_key |-> "k3"]>>,
                                  [a \in {"a1"} |-> "d2"])

SpecAudit == InitAudit /\ [][NextAudit]_vars

\* C22: whenever a rotation surfaces an error, no wrapped_org_key and no
\* encrypted_dek differs from its value before the call
RotationAllOrNothing ==
    [][(resp'.op = "rotate_organization_keys" /\ resp'.result.status # "ok")
       => (members' = members /\ accounts' = accounts)]_vars

AuditedAction(op) ==
    CASE op = "rotate_organization_keys" -> "keys_rotated"
      [] op = "update_member_role" -> "member_role_changed"
      [] op = "transfer_ownership" -> "ownership_transferred"
      [] OTHER -> None

\* C23: a committed key rotation, role change or ownership transfer always comes
\* with its audit entry, also when the audit write fails
AuditCommittedWithMutation ==
    [][(/\ resp'.op \in {"rotate_organization_keys", "update_member_role",
                         "transfer_ownership"}
        /\ (members' # members \/ accounts' # accounts))
       => \E e \in audit_logs' \ audit_logs :
            /\ e.action = AuditedAction(resp'.op)
            /\ e.organization_id = resp'.obj
            /\ e.user_id = resp'.actor]_vars

\* C24: a create_invitation that stored its invitation returns the successful
\* result also when the audit write fails
InvitationSurvivesAuditFailure ==
    [][(resp'.op = "create_invitation" /\ invitations' # invitations)
       => resp'.result = "ok"]_vars

\* C26: across the organization, membership, invitation, account-permission and
\* key-rotation requests the set of audit entries only grows and every entry
\* stays as it was written
AuditAppendOnly == [][audit_logs \subseteq audit_logs']_vars

\* two entries written by different requests are both stored
AuditTrailGrown ==
    \E e1 \in audit_logs, e2 \in audit_logs :
        /\ e1.id = 1 /\ e2.id = 2
        /\ e1.action = "member_invited"
        /\ e2.action = "keys_rotated"

\* C25: update_account changes the encrypted_data, encrypted_dek or
\* organization_id of an organizational account only for a caller who is a
\* member of the account's organization
CreatorOfRecordNoAccess ==
    [][(/\ resp'.op = "update_account"
        /\ accounts' # accounts
        /\ accounts[resp'.obj].organization_id # NoOrg)
       => <<accounts[resp'.obj].organization_id, resp'.actor>> \in DOMAIN members]_vars

(***************************************************************************)
(* SpecPayload: the encrypted payloads of accounts and transactions as the *)
(* handlers store and return them.  u1 owns o1 and u2 has joined it as a   *)
(* member; accounts are personal or belong to o1                           *)
(***************************************************************************)
InitPayload ==
    /\ schema = "alembic"
    /\ users = {"u1", "u2"}
    /\ orgs = [o \in {"o1", "o2"} |-> [deleted_at |-> FALSE]]
    /\ members = [k \in {<<"o1", "u1">>, <<"o2", "u2">>, <<"o1", "u2">>} |->
                    [role |-> IF k = <<"o1", "u2">> THEN "member" ELSE "owner",
                     copies |-> 1, wrapped_org_key |-> "k1"]]
    /\ invitations = [t \in {"t1"} |->
                        [organization_id |-> "o1", email |-> "e2", role |-> "member",
                         expires_at |-> InvitationPeriods,
                         accepted_at |-> TRUE, rejected_at |-> FALSE,
                         wrapped_org_key |-> "k1"]]
    /\ accounts = EmptyTable
    /\ perms = EmptyTable
    /\ txns = EmptyTable
    /\ now = 0
    /\ resp = Response("init", None, None, None, "ok")
    /\ reqs = EmptyTable
    /\ issued = DOMAIN invitations
    /\ audit_logs = NotObserved

NextPayload ==
    \/ \E u \in Users, o \in {"o1", NoOrg}, b \in Blobs : create_account(u, o, b, "d1")
    \/ \E u \in Users, a \in Accounts, b \in Blobs :
         update_account(u, a, [encrypted_data |-> b, organization_id |-> None,
                               wrapped_dek |-> None])
    \/ \E u \in Users, a \in Accounts : get_account(u, a)
    \/ \E u \in Users, a \in Accounts, b \in Blobs : create_transaction(u, a, b)
    \/ \E u \in Users, x \in Txns, b \in Blobs \cup {None} : update_transaction(u, x, b)
    \/ \E u \in Users, x \in Txns : delete_transaction(u, x)
    \/ \E u \in Users, x \in Txns : restore_transaction(u, x)
    \/ \E u \in Users, x \in Txns : get_transaction(u, x)
    \/ \E u \in Users, a \in Accounts : get_transactions(u, a)

SpecPayload == InitPayload /\ [][NextPayload]_vars

\* C27: create_account and create_transaction store the blob of the request,
\* update_transaction replaces it by the blob of its request, no other request
\* changes a stored blob except update_account on that account, every read
\* returns the stored blob, and the legacy plaintext columns stay null
PayloadVerbatim ==
    [][/\ (resp'.op = "create_account" /\ accounts' # accounts)
            => accounts'[resp'.obj].encrypted_data = resp'.arg.encrypted_data
       /\ (resp'.op = "create_transaction" /\ txns' # txns)
            => txns'[resp'.obj].encrypted_data = resp'.arg.encrypted_data
       /\ (resp'.op = "update_transaction" /\ resp'.arg.encrypted_data # None)
            => txns'[resp'.obj].encrypted_data = resp'.arg.encrypted_data
       /\ \A x \in DOMAIN txns :
            /\ x \in DOMAIN txns'
            /\ txns'[x].encrypted_data # txns[x].encrypted_data
                 => (resp'.op = "update_transaction" /\ resp'.obj = x)
       /\ \A a \in DOMAIN accounts :
            /\ a \in DOMAIN accounts'
            /\ accounts'[a].encrypted_data # accounts[a].encrypted_data
                 => (resp'.op = "update_account" /\ resp'.obj = a)
       /\ resp'.op = "get_account"
            => resp'.result.encrypted_data = accounts[resp'.obj].encrypted_data
       /\ resp'.op = "get_transaction"
            => resp'.result.encrypted_data = txns[resp'.obj].encrypted_data
       /\ resp'.op = "get_transactions"
            => \A x \in DOMAIN txns :
                 (txns[x].account_id = resp'.obj /\ ~txns[x].deleted_at)
                 => [id |-> x, encrypted_data |-> txns[x].encrypted_data] \in resp'.result
       /\ \A a \in DOMAIN accounts' : accounts'[a].name = None
       /\ \A x \in DOMAIN txns' : txns'[x].amount = None]_vars

\* a transaction updated to b2 is read back as b2 by another member of the organization
UpdatedBlobReadBack ==
    /\ resp.op = "get_transaction"
    /\ resp.actor = "u2"
    /\ resp.result.encrypted_data = "b2"
    /\ "a1" \in DOMAIN accounts
    /\ accounts["a1"].user_id = "u1"
    /\ accounts["a1"].encrypted_data = "b1"

\* C28: an accept_invitation that commits adds exactly the membership of the
\* accepter in the invitation's organization, with the invitation's role and the
\* wrapped key of the request, and sets accepted_at in the same step; the accepter
\* was not a member before
AcceptCreatesMembership ==
    [][(/\ resp'.op = "accept_invitation"
        /\ (members' # members \/ invitations' # invitations))
       => LET t == resp'.obj
              k == <<invitations[t].organization_id, resp'.actor>>
          IN /\ k \notin DOMAIN members
             /\ ~invitations[t].accepted_at
             /\ DOMAIN members' = DOMAIN members \cup {k}
             /\ \A j \in DOMAIN members : members'[j] = members[j]
             /\ members'[k] = [role |-> invitations[t].role, copies |-> 1,
                               wrapped_org_key |-> resp'.arg]
             /\ invitations' = [invitations EXCEPT ![t].accepted_at = TRUE]]_vars

\* the accepted invitation's key and the key stored on the new membership differ
AcceptedWithRewrappedKey ==
    /\ resp.op = "accept_invitation"
    /\ resp.obj \in DOMAIN invitations
    /\ invitations[resp.obj].accepted_at
    /\ LET k == <<invitations[resp.obj].organization_id, resp.actor>>
       IN /\ k \in DOMAIN members
          /\ members[k].wrapped_org_key = resp.arg
          /\ members[k].wrapped_org_key # invitations[resp.obj].wrapped_org_key
          /\ members[k].copies = 1

\* an invitation that is still acceptable although its invitee is a member by now
PendingForMember ==
    \E t \in DOMAIN invitations, u \in users :
        accept_invitation_result(invitations, members, now, u, t) = "already_member"

\* an invitation that is accepted, rejected or expired
Terminal(t) ==
    \/ invitations[t].accepted_at
    \/ invitations[t].rejected_at
    \/ invitations[t].expires_at < now

\* C29: when every stored invitation for (organization, email) is accepted,
\* rejected or expired and the email belongs to no current member, an admin or
\* owner can create a new invitation for that pair
TerminalInvitationsCoexist ==
    \A actor \in users, o \in DOMAIN orgs, email \in Emails, role \in Roles \ {"owner"} :
        (/\ check_org_admin(orgs, members, actor, o) = "ok"
         /\ ~ExistingMemberByEmail(members, o, email)
         /\ \E t \in DOMAIN invitations :
              invitations[t].organization_id = o /\ invitations[t].email = email
         /\ \A t \in DOMAIN invitations :
              (invitations[t].organization_id = o /\ invitations[t].email = email)
              => Terminal(t))
        => create_invitation_result(actor, o, email, role) = "ok"

\* C30: an invitation row is created only by create_invitation, only for an
\* inviter whose role in the organization is admin or owner, and only for an
\* email that belongs to no current member of the organization
InvitationNeedsAdminAndNonMember ==
    [][\A t \in DOMAIN invitations' \ DOMAIN invitations :
         LET o == invitations'[t].organization_id
             email == invitations'[t].email
         IN /\ resp'.op = "create_invitation"
            /\ resp'.obj = t
            /\ <<o, resp'.actor>> \in DOMAIN members
            /\ members[<<o, resp'.actor>>].role \in {"admin", "owner"}
            /\ ~\E u \in users : EmailOf(u) = email /\ <<o, u>> \in DOMAIN members
            /\ DOMAIN invitations' = DOMAIN invitations \cup {t}]_vars

\* the owner has invited e3 while u2, a plain member or viewer, could not have,
\* and u2's own email can no longer be invited
InvitedByOwnerNotByMember ==
    /\ resp.op = "create_invitation"
    /\ resp.actor = "u1"
    /\ resp.obj = "t1"
    /\ "t1" \in DOMAIN invitations
    /\ invitations["t1"].organization_id = "o1"
    /\ invitations["t1"].email = "e3"
    /\ <<"o1", "u2">> \in DOMAIN members
    /\ members[<<"o1", "u2">>].role \in {"member", "viewer"}
    /\ create_invitation_result("u2", "o1", "e3", "member") = "insufficient_role"
    /\ create_invitation_result("u1", "o1", "e2", "member") = "already_member"

\* C31: an invitation row disappears only through cancel_invitation by an admin or
\* owner of the row's organization, never when the row is accepted; afterwards
\* verify_invitation_token answers not-found for the token, and no membership is
\* created, changed or deleted; an admin's request is refused exactly for a
\* missing or an accepted row
CancelInvitationEffect ==
    [][/\ \A t \in DOMAIN invitations \ DOMAIN invitations' :
            LET o == invitations[t].organization_id IN
            /\ resp'.op = "cancel_invitation"
            /\ resp'.obj = t
            /\ <<o, resp'.actor>> \in DOMAIN members
            /\ members[<<o, resp'.actor>>].role \in {"admin", "owner"}
            /\ ~invitations[t].accepted_at
            /\ verify_invitation_token(invitations', t, now') = "not_found"
            /\ DOMAIN invitations' = DOMAIN invitations \ {t}
            /\ \A s \in DOMAIN invitations' : invitations'[s] = invitations[s]
            /\ members' = members
       /\ \A actor \in users, t \in DOMAIN invitations :
            LET o == invitations[t].organization_id IN
            check_org_admin(orgs, members, actor, o) = "ok" =>
                /\ invitations[t].accepted_at
                     => cancel_invitation_result(orgs, members, invitations, actor, o, t)
                            = "already_accepted"
                /\ ~invitations[t].accepted_at
                     => cancel_invitation_result(orgs, members, invitations, actor, o, t)
                            = "ok"]_vars

\* u2 joined o1 as admin by accepting t2, which can no longer be cancelled, and
\* has cancelled the owner's later invitation t1
AdminCancelledInvitation ==
    /\ resp.op = "cancel_invitation"
    /\ resp.actor = "u2"
    /\ resp.obj = "t1"
    /\ "t1" \notin DOMAIN invitations
    /\ "t1" \in issued
    /\ verify_invitation_token(invitations, "t1", now) = "not_found"
    /\ <<"o1", "u2">> \in DOMAIN members
    /\ members[<<"o1", "u2">>].role = "admin"
    /\ "t2" \in DOMAIN invitations
    /\ invitations["t2"].accepted_at
    /\ cancel_invitation_result(orgs, members, invitations, "u1", "o1", "t2") = "already_accepted"

(***************************************************************************)
(* SpecMembers: member management in organization o1, whose owner u1 has   *)
(* been joined by u2 and u3, each as admin, member or viewer; requests run *)
(* one after the other                                                     *)
(***************************************************************************)
InitMembers ==
    /\ schema = "alembic"
    /\ users = {"u1", "u2", "u3"}
    /\ orgs = [o \in {"o1", "o2", "o3"} |-> [deleted_at |-> FALSE]]
    /\ \E r2 \in Roles \ {"owner"}, r3 \in Roles \ {"owner"} :
        /\ members =
             [k \in {<<"o1", "u1">>, <<"o2", "u2">>, <<"o3", "u3">>,
                     <<"o1", "u2">>, <<"o1", "u3">>} |->
                [role |-> IF k = <<"o1", "u2">> THEN r2
                          ELSE IF k = <<"o1", "u3">> THEN r3 ELSE "owner",
                 copies |-> 1, wrapped_org_key |-> "k1"]]
        /\ invitations =
             [t \in {"t1", "t2"} |->
                [organization_id |-> "o1",
                 email |-> IF t = "t1" THEN "e2" ELSE "e3",
                 role |-> IF t = "t1" THEN r2 ELSE r3,
                 expires_at |-> InvitationPeriods,
                 accepted_at |-> TRUE, rejected_at |-> FALSE, wrapped_org_key |-> "k1"]]
    /\ accounts = EmptyTable
    /\ perms = EmptyTable
    /\ txns = EmptyTable
    /\ now = 0
    /\ resp = Response("init", None, None, None, "ok")
    /\ reqs = EmptyTable
    /\ issued = DOMAIN invitations
    /\ audit_logs = NotObserved

NextMembers ==
    \/ \E u \in Users, v \in Users, r \in Roles : update_member_role(u, "o1", v, r)
    \/ \E u \in Users, v \in Users : remove_member(u, "o1", v)
    \/ \E u \in Users, v \in Users : transfer_ownership(u, "o1", v)

SpecMembers == InitMembers /\ [][NextMembers]_vars

\* C32: can_manage_member permits exactly an owner acting on anyone but a
\* different owner and an admin acting on a member or viewer; hence
\* update_member_role and remove_member called by an admin never change or
\* delete a membership whose role is owner or admin, the admin's own included
AdminManagesOnlyBelow ==
    [][/\ \A manager_role \in Roles, target_role \in Roles,
             manager_user \in Users, target_user \in Users :
            can_manage_member(manager_role, manager_user, target_role, target_user) = "ok"
                <=> \/ /\ manager_role = "owner"
                       /\ ~(target_role = "owner" /\ target_user # manager_user)
                    \/ /\ manager_role = "admin"
                       /\ target_role \in {"member", "viewer"}
       /\ (/\ resp'.op \in {"update_member_role", "remove_member"}
           /\ members' # members
           /\ members[<<resp'.obj, resp'.actor>>].role = "admin")
            => \A k \in DOMAIN members :
                  members[k].role \in {"owner", "admin"}
                      => k \in DOMAIN members' /\ members'[k] = members[k]]_vars

\* an admin of o1 has just changed or removed a lower member and is, in this
\* state, refused on the owner, on a fellow admin and on their own membership
AdminActedOnLowerMember ==
    \E o \in DOMAIN orgs, u \in users, v \in users, peer \in users :
        /\ peer # u
        /\ <<o, peer>> \in DOMAIN members
        /\ members[<<o, peer>>].role = "admin"
        /\ remove_member_result(orgs, members, u, o, peer) = "forbidden"
        /\ resp.op \in {"update_member_role", "remove_member"}
        /\ resp.actor = u
        /\ resp.obj = o
        /\ resp.arg = v
        /\ u # v
        /\ <<o, u>> \in DOMAIN members
        /\ members[<<o, u>>].role = "admin"
        /\ update_member_role_result(orgs, members, u, o, u, "member") = "forbidden"
        /\ remove_member_result(orgs, members, u, o, u) = "forbidden"
        /\ \E w \in users :
              /\ <<o, w>> \in DOMAIN members
              /\ members[<<o, w>>].role = "owner"
              /\ update_member_role_result(orgs, members, u, o, w, "member") = "forbidden"

(***************************************************************************)
(* SpecDeletion: u1 owns o1, which u2 has joined as admin or member, and   *)
(* u2 owns o2; account a1 of o1 is stored already or has yet to be created *)
(***************************************************************************)
InitDeletion ==
    /\ schema = "alembic"
    /\ users = {"u1", "u2"}
    /\ orgs = [o \in {"o1", "o2"} |-> [deleted_at |-> FALSE]]
    /\ \E joined \in {"admin", "member"} :
        members = [k \in {<<"o1", "u1">>, <<"o2", "u2">>, <<"o1", "u2">>}
                     |-> [role |-> IF k = <<"o1", "u2">> THEN joined ELSE "owner",
                          copies |-> 1, wrapped_org_key |-> "k1"]]
    /\ \E stored \in SUBSET {"a1"} :
        accounts = [a \in stored |->
                      [user_id |-> "u1", organization_id |-> "o1",
                       default_permission |-> "view", deleted_at |-> FALSE,
                       encrypted_data |-> "b1", encrypted_dek |-> "d1", name |-> None]]
    /\ invitations = EmptyTable
    /\ perms = EmptyTable
    /\ txns = EmptyTable
    /\ now = 0
    /\ resp = Response("init", None, None, None, "ok")
    /\ reqs = EmptyTable
    /\ issued = DOMAIN invitations
    /\ audit_logs = NotObserved

NextDeletion ==
    \/ \E u \in Users, o \in Orgs : delete_organization(u, o)
    \/ \E u \in Users, o \in Orgs \cup {NoOrg} : create_account(u, o, "b1", "d1")
    \/ \E u \in Users, a \in Accounts, account_data \in AccountUpdates :
          update_account(u, a, account_data)

SpecDeletion == InitDeletion /\ [][NextDeletion]_vars

\* C33: once an organization is deleted, check_org_permission answers not-found
\* for every user, and check_account_permission answers not-found for every
\* user on every account whose organization_id is that organization
DeletedOrgAccountsInaccessible ==
    \A o \in DOMAIN orgs :
        orgs[o].deleted_at =>
            /\ \A u \in users, required_role \in Roles \cup {NoRole} :
                  check_org_permission(orgs, members, u, o, required_role) = "not_found"
            /\ \A a \in DOMAIN accounts, u \in users, required_permission \in Permissions :
                  accounts[a].organization_id = o
                      => check_account_permission(accounts, members, perms, u, a,
                                                  required_permission) = "not_found"

\* the part of C33 that the handlers keep: a deleted organization stays deleted,
\* and the accounts it held when it was deleted stay deleted
TombstonesStay ==
    [][/\ \A o \in DOMAIN orgs : orgs[o].deleted_at => orgs'[o].deleted_at
       /\ \A a \in DOMAIN accounts : accounts[a].deleted_at => accounts'[a].deleted_at
       /\ \A o \in DOMAIN orgs :
            (~orgs[o].deleted_at /\ orgs'[o].deleted_at)
                => \A a \in DOMAIN accounts' :
                      accounts'[a].organization_id = o => accounts'[a].deleted_at]_vars

(***************************************************************************)
(* SpecPermRace: two set_account_permission requests in flight for account *)
(* a1 of organization o1 (owner u1, member u2) and target u2, whose        *)
(* AccountPermission row is stored already or not                          *)
(***************************************************************************)
\* routers/accounts.py set_account_permission up to db.commit(): existing_perm is
\* what the SELECT finds among the committed rows
begin_set_account_permission(r, actor, a, target, permission) ==
    LET result == set_account_permission_result(accounts, members, perms, actor, a,
                                                target, permission) IN
    begin(r, Session("set_account_permission", actor, a, target, result, NoWrites, None)
             @@ [perm_write |-> [kind |-> IF <<a, target>> \in DOMAIN perms
                                          THEN "update" ELSE "insert",
                                 permission |-> permission]])

\* db.commit() of set_account_permission: the UPDATE of the loaded row, or the
\* INSERT, which only the unique constraint of the alembic build can refuse
commit_set_account_permission(r) ==
    /\ r \in DOMAIN reqs
    /\ reqs[r].status = "pending"
    /\ reqs[r].op = "set_account_permission"
    /\ LET k == <<reqs[r].obj, reqs[r].arg>>
           w == reqs[r].perm_write
           result == IF w.kind = "update" /\ k \notin DOMAIN perms THEN "stale_data"
                     ELSE IF w.kind = "insert" /\ k \in DOMAIN perms /\ schema = "alembic"
                          THEN "integrity_error"
                     ELSE "ok"
       IN /\ reqs' = [reqs EXCEPT ![r].status = IF result = "ok" THEN "committed"
                                                ELSE "rolled_back",
                                  ![r].result = result]
          /\ IF result = "ok"
             THEN /\ perms' = IF w.kind = "update"
                              THEN [perms EXCEPT ![k].permission = w.permission]
                              ELSE IF k \in DOMAIN perms
                                   THEN [perms EXCEPT ![k].copies = @ + 1]
                              ELSE Insert(perms, k, [permission |-> w.permission,
                                                     copies |-> 1])
                  /\ resp' = Response(reqs[r].op, reqs[r].actor, reqs[r].obj, reqs[r].arg, "ok")
             ELSE UNCHANGED <<perms, resp>>
    /\ UNCHANGED <<schema, users, orgs, members, invitations, accounts, txns, now, issued, audit_logs>>

InitPermRace ==
    /\ schema \in {"alembic", "metadata"}
    /\ users = {"u1", "u2"}
    /\ orgs = [o \in {"o1", "o2"} |-> [deleted_at |-> FALSE]]
    /\ members = [k \in {<<"o1", "u1">>, <<"o2", "u2">>, <<"o1", "u2">>} |->
                    [role |-> IF k = <<"o1", "u2">> THEN "member" ELSE "owner",
                     copies |-> 1, wrapped_org_key |-> "k1"]]
    /\ invitations = EmptyTable
    /\ accounts = [a \in {"a1"} |->
                     [user_id |-> "u1", organization_id |-> "o1",
                      default_permission |-> "view", deleted_at |-> FALSE,
                      encrypted_data |-> "b1", encrypted_dek |-> "d1", name |-> None]]
    /\ perms \in {EmptyTable, [k \in {<<"a1", "u2">>} |-> [permission |-> "view", copies |-> 1]]}
    /\ txns = EmptyTable
    /\ now = 0
    /\ resp = Response("init", None, None, None, "ok")
    /\ reqs = EmptyTable
    /\ issued = DOMAIN invitations
    /\ audit_logs = NotObserved

NextPermRace ==
    \/ \E r \in ReqIds, u \in Users, permission \in {"edit", "full"} :
          begin_set_account_permission(r, u, "a1", "u2", permission)
    \/ \E r \in ReqIds : commit_set_account_permission(r)

SpecPermRace == InitPermRace /\ [][NextPermRace]_vars

\* C34: at most one AccountPermission row exists per (account, user), also under
\* concurrent set_account_permission requests for the same pair, and a set on an
\* existing pair overwrites the level of the existing row
OnePermissionRowPerPair ==
    [][/\ \A k \in DOMAIN perms' : perms'[k].copies = 1
       /\ \A k \in DOMAIN perms :
            (resp'.op = "set_account_permission" /\ perms' # perms /\ k \in DOMAIN perms')
                => DOMAIN perms' = DOMAIN perms]_vars

\* C35: a set_account_permission or remove_account_permission request changes an
\* AccountPermission row only when the caller's role in the account's
\* organization is owner or admin, whatever the caller's explicit permission
\* and the account's default_permission
PermissionsManagedByAdmins ==
    [][(resp'.op \in {"set_account_permission", "remove_account_permission"}
          /\ perms' # perms)
         => LET o == accounts[resp'.obj].organization_id IN
            /\ <<o, resp'.actor>> \in DOMAIN members
            /\ members[<<o, resp'.actor>>].role \in {"owner", "admin"}]_vars

\* C36: create_account stores an account with an organization_id only for a
\* caller who is a member of that organization with a role above viewer
OrgAccountsCreatedByMembers ==
    [][\A a \in DOMAIN accounts' \ DOMAIN accounts :
         LET o == accounts'[a].organization_id IN
         (resp'.op = "create_account" /\ o # NoOrg)
            => /\ <<o, resp'.actor>> \in DOMAIN members
               /\ members[<<o, resp'.actor>>].role \in {"owner", "admin", "member"}]_vars

\* check_account_permission with its last branch, the viewer fallback, taken out
WithoutViewerFallback(accountsT, membersT, permsT, u, a, required_permission) ==
    IF a \notin DOMAIN accountsT \/ accountsT[a].deleted_at THEN "not_found"
    ELSE IF accountsT[a].organization_id = NoOrg
         THEN (IF accountsT[a].user_id # u THEN "access_denied" ELSE "granted")
    ELSE IF <<accountsT[a].organization_id, u>> \notin DOMAIN membersT THEN "not_member"
    ELSE IF membersT[<<accountsT[a].organization_id, u>>].role \in {"owner", "admin"} THEN "granted"
    ELSE IF <<a, u>> \in DOMAIN permsT
            /\ PERMISSION_HIERARCHY(permsT[<<a, u>>].permission) >= PERMISSION_HIERARCHY(required_permission)
         THEN "granted"
    ELSE IF accountsT[a].default_permission # ""
            /\ PERMISSION_HIERARCHY(accountsT[a].default_permission)
                 >= PERMISSION_HIERARCHY(required_permission)
         THEN "granted"
    ELSE "insufficient_permission"

\* C37: on a non-deleted organization account whose default_permission is full,
\* edit or view, every member of the organization, whatever the role and the
\* explicit row, is granted view, and the check answers what it would answer
\* without the viewer fallback
ViewerFallbackRedundant ==
    (/\ CheckedOrgAccount
     /\ CheckedMemberKey \in DOMAIN members
     /\ accounts[CheckedAccount].default_permission \in Permissions)
    => /\ resp.arg = "view" => resp.result = "granted"
       /\ resp.result = WithoutViewerFallback(accounts, members, perms, CheckedUser,
                                              CheckedAccount, resp.arg)

\* a viewer without an explicit row asking for view on a view-default account
ViewerGrantedViewByDefault ==
    /\ CheckedOrgAccount
    /\ CheckedMemberKey \in DOMAIN members
    /\ members[CheckedMemberKey].role = "viewer"
    /\ <<CheckedAccount, CheckedUser>> \notin DOMAIN perms
    /\ accounts[CheckedAccount].default_permission = "view"
    /\ resp.arg = "view"
    /\ resp.result = "granted"

\* C38: every AccountPermission row refers to a user who is currently a member
\* of the account's organization
PermissionRowsOfMembers ==
    \A k \in DOMAIN perms :
        /\ k[1] \in DOMAIN accounts
        /\ accounts[k[1]].organization_id # NoOrg
        /\ <<accounts[k[1]].organization_id, k[2]>> \in DOMAIN members

\* C39: a stored membership's wrapped_org_key changes only in a
\* rotate_organization_keys request made by the owner of its organization, and
\* a membership row appears only through register, create_organization or
\* accept_invitation, for the caller; every other request leaves all
\* wrapped_org_key values as they were
WrappedKeyWriters ==
    [][/\ \A k \in DOMAIN members \cap DOMAIN members' :
            members'[k].wrapped_org_key # members[k].wrapped_org_key
                => /\ resp'.op = "rotate_organization_keys"
                   /\ resp'.obj = k[1]
                   /\ <<k[1], resp'.actor>> \in DOMAIN members
                   /\ members[<<k[1], resp'.actor>>].role = "owner"
       /\ \A k \in DOMAIN members' \ DOMAIN members :
            /\ resp'.op \in {"register", "create_organization", "accept_invitation"}
            /\ k[2] = resp'.actor
       /\ resp'.op \in {"update_member_role", "transfer_ownership", "set_account_permission",
                        "remove_account_permission", "create_invitation",
                        "reject_invitation", "cancel_invitation", "delete_organization"}
            => \A k \in DOMAIN members :
                  k \in DOMAIN members'
                    /\ members'[k].wrapped_org_key = members[k].wrapped_org_key]_vars

\* the owner u1 has rotated the key of u3, whose own rotation request is refused
OwnerRotatedMemberKey ==
    /\ resp.op = "rotate_organization_keys"
    /\ resp.actor = "u1"
    /\ resp.obj = "o1"
    /\ members[<<"o1", "u1">>].role = "owner"
    /\ <<"o1", "u3">> \in DOMAIN members
    /\ members[<<"o1", "u3">>].wrapped_org_key = "k3"
    /\ members[<<"o1", "u1">>].wrapped_org_key = "k1"
    /\ rotate_organization_keys_result(orgs, members, "u3", "o1") = "insufficient_role"
====
